---- MODULE Spec2Model ----
(***************************************************************************)
(* Model of backbot (yhabteab/backbot): the backport run of one merged     *)
(* pull request.  The repository holds two replay engines:                 *)
(*   "api": Run/cherryPickCommits, which replay through the Code Host's    *)
(*          commit-graph API (src/backport/input_test.go:77-351);          *)
(*   "git": Run/cherryPick, which replay in a working tree with the git    *)
(*          command line (src/backport/backport.go:45-261).                *)
(* Names (labels, branches, refs) are sequences of string tokens, so that  *)
(* prefix stripping and name construction are computed, not assumed.       *)
(* Commit identifiers (SHAs) are integers.                                 *)
(***************************************************************************)
EXTENDS Integers, Sequences, FiniteSets, TLC

VARIABLES
  engine,      \* which replay engine this build runs: "api" or "git"
  config,      \* Input: ConflictHandling, MergeCommitHandling
  sourcePr,    \* the source pull request snapshot: number, merged, labels
  range,       \* the commits selected for the pull request, oldest first
  pc,          \* position of Run / cherryPickCommits / cherryPick
  ret,         \* how Run ended: "none" (running), "nil", "err", "panic", "fatal"
  targetRefs,  \* result of getTargetRefs (branch names)
  commits,     \* commitsToCherryPick (api) / commitSHAs (git), as commit records
  mergesFound, \* git: mergeCommitSHAs found in the range; api: merge commits seen
  ti,          \* index of the target the loop is at (1-based)
  ci,          \* index of the commit the replay loop is at (1-based)
  backport,    \* api: the Reference variable `backport`; git: backportRef
  previousCommit, \* api: previousCommit (SHA, NoSHA when nil); git: local HEAD
  newCommit,   \* api: newCommit in the conflict branch (SHA)
  newPr,       \* the pull request a target attempt returned (number, 0 = nil)
  refs,        \* Code Host: the branch refs that exist, name -> SHA
  prs,         \* Code Host: pull requests created, in creation order
  created,     \* commit objects created (Code Host commits / local commits)
  reqs,        \* every request issued to the Code Host or push to the remote
  refList,     \* the targets Run lists in its final comment, with their PRs
  mk,          \* what MergeKind returned: the strategy and whether with an error
  msgs,        \* the recovery messages sent: attempt, issue number, body
  env,         \* the process environment: variable name -> value or Unset
  commitsPRCache, \* Client.commitsPRCache: pull request number -> commit list
  picks,       \* git: the cherry-pick commands run: commits given, SHAs listed
  githubCtx    \* the GitHub context: event name, action, event payload

vars == <<engine, config, sourcePr, range, pc, ret, targetRefs, commits,
          mergesFound, ti, ci, backport, previousCommit, newCommit, newPr,
          refs, prs, created, reqs, refList, mk, msgs, env, commitsPRCache,
          picks, githubCtx>>

(***************************************************************************)
(* Bounds and value sets                                                   *)
(***************************************************************************)
\* Longest commit range of a pull request that is explored.
MaxCommits == 2

Engines == {"api", "git"}

\* README.md:199-205 and the literal "fail" of input_test.go:159.
MergeCommitHandlingSkip == "skip"
MergeCommitHandlingAbort == "abort"
ConflictHandlingAbort == "abort"
ConflictHandlingDraft == "draft"
MergeCommitHandlings == {"skip", "abort", "include", "fail"}
ConflictHandlings == {"abort", "draft"}
\* Label patterns: one with a capturing group for the branch, as the default
\* "backport-to-(support\/\d+\.\d+)", and one that has no capturing group.
LabelPatternGroup == "backport-to-(.+)"
LabelPatternNoGroup == "backport-to-.+"

\* The value of an environment variable that is not set.
Unset == "<unset>"
\* The names of the environment variables that are looked at.
EnvNames ==
  {"INPUT_GITHUB_TOKEN", "INPUT_COMMITTER", "INPUT_EMAIL",
   "INPUT_COMMITTER_EMAIL", "INPUT_PR_TITLE", "INPUT_PR_DESCRIPTION",
   "INPUT_COPY_LABEL_PATTERN", "INPUT_COPY_LABELS_PATTERN",
   "INPUT_LABEL_PATTERN", "INPUT_CONFLICT_HANDLING",
   "INPUT_MERGE_COMMIT_HANDLING"}
\* An environment with none of them set.
NoEnv == [n \in EnvNames |-> Unset]

\* A nil *Commit / an empty SHA string (the nil-safe getters return "").
NoSHA == 0
\* A nil *Reference: GetRef() is "" and GetObject().GetSHA() is "".
NilRef == [ref |-> <<>>, sha |-> NoSHA]
\* A nil *PullRequest.
NoPr == 0
\* MergeKind values, and the value of `mk` before MergeKind has returned.
MergeInvalid == "MergeInvalid"
Squash == "Squash"
MergeCommit == "MergeCommit"
Rebase == "Rebase"
NoMk == [kind |-> "unset", err |-> FALSE]

(***************************************************************************)
(* The repository the run works on                                         *)
(***************************************************************************)
\* Branches that exist on the Code Host and can be backported to.
ExistingBranches == {<<"t1">>, <<"t2">>}

\* The label lists explored: none, one or two labels; backport labels for an
\* existing branch, for a branch that does not exist ("t9"), and a label that
\* is no backport label; the two existing targets are named against their
\* alphabetical order.
LabelLists ==
  { <<>>,
    << <<"bug">> >>,
    << <<"backport-to-", "t1">> >>,
    << <<"backport-to-", "t2">> >>,
    << <<"backport-to-", "t9">> >>,
    << <<"backport-to-", "t2">>, <<"backport-to-", "t1">> >>,
    << <<"backport-to-", "t1">>, <<"bug">> >>,
    << <<"bug">>, <<"backport-to-", "t2">> >>,
    << <<"backport-to-", "t9">>, <<"backport-to-", "t1">> >> }

\* SHA of the k-th commit of the selected range (k = 0: the commit before it).
SrcSHA(k) == 10 + k
\* SHA of the merged-in side parent of a merge commit of the range.
SideSHA(k) == 20 + k
\* SHA of the tip of an existing target branch.
TipSHA(branch) == IF branch = <<"t1">> THEN 31 ELSE 32
\* SHA the Code Host (or git) gives the n-th commit object created in the run.
NewSHA(n) == 100 + n
\* SHA of the tree of a commit: never the SHA of a commit.
TreeOf(sha) == 1000 + sha

\* The commit range selected for the pull request: flags[k] says whether the
\* k-th commit is a merge commit (two parents).
RangeOf(flags) ==
  [ k \in DOMAIN flags |->
      [ sha       |-> SrcSHA(k),
        parents   |-> IF flags[k] THEN <<SrcSHA(k - 1), SideSHA(k)>>
                                  ELSE <<SrcSHA(k - 1)>>,
        tree      |-> TreeOf(SrcSHA(k)),
        author    |-> "author",
        committer |-> [name |-> "author", email |-> "author@example.org"] ] ]

\* The ranges explored: none to MaxCommits commits, at most one of them a
\* merge commit.
Ranges ==
  UNION { { RangeOf(f) : f \in { g \in [1..n -> BOOLEAN] :
                                    Cardinality({k \in 1..n : g[k]}) <= 1 } }
          : n \in 0..MaxCommits }

(***************************************************************************)
(* Pure helpers of the program                                             *)
(***************************************************************************)
RefPrefix == "refs/heads/"

\* strings.TrimPrefix(ref, "refs/heads/")
trimRefPrefix(ref) ==
  IF Len(ref) >= 1 /\ ref[1] = RefPrefix THEN Tail(ref) ELSE ref

\* The full ref name of a branch, as the Code Host stores it.
FullRef(branch) == <<RefPrefix>> \o trimRefPrefix(branch)

\* fmt.Sprintf("backport-%d-to-%s", prNumber, trimRefPrefix(targetBranch))
makeBackportBranchNameOfRef(prNumber, targetBranch) ==
  <<"backport-", prNumber, "-to-">> \o trimRefPrefix(targetBranch)

\* fmt.Sprintf("backport-%d-to-%s", prNumber, targetBranch)
makeBackportBranchName(prNumber, targetBranch) ==
  <<"backport-", prNumber, "-to-">> \o targetBranch

\* len(commit.Parents) > 1
IsMergeCommit(commit) == Len(commit.parents) > 1

\* b.config.labelRegex.FindStringSubmatch(label): the default pattern
\* backport-to-(support\/\d+\.\d+) is not anchored; the result is <<>> when
\* the label does not match, else <<whole match, first group>>.
FindStringSubmatch(label) ==
  IF \E p \in 1..(Len(label) - 1) : label[p] = "backport-to-"
  THEN LET p == CHOOSE q \in 1..(Len(label) - 1) : label[q] = "backport-to-"
       IN  IF config.LabelPattern = LabelPatternGroup
           THEN << <<label[p], label[p + 1]>>, <<label[p + 1]>> >>
           ELSE << <<label[p], label[p + 1]>> >>
  ELSE <<>>

\* b.config.copyLabelRegex.MatchString(label), for the copy pattern "bug".
CopyMatchString(label) == \E p \in 1..Len(label) : label[p] = "bug"

\* A plausible slip: the branch of a matching label is not looked up.
TargetBranchesKeepsMissing(labels, from) ==
  LET kept == SelectSeq(SubSeq(labels, from, Len(labels)),
                        LAMBDA l : Len(FindStringSubmatch(l)) >= 2)
  IN  [k \in DOMAIN kept |-> FindStringSubmatch(kept[k])[2]]

\* The loop of getTargetRefs over labels[from..]: the first capture group of
\* each matching label whose branch can be resolved, in label order.
RECURSIVE TargetBranches(_, _)
TargetBranches(labels, from) ==
  IF from > Len(labels) THEN <<>>
  ELSE LET matches == FindStringSubmatch(labels[from])
           rest    == TargetBranches(labels, from + 1)
       IN  IF Len(matches) = 0 THEN rest
           ELSE IF Len(matches) < 2 THEN rest
           ELSE IF matches[2] \notin ExistingBranches THEN rest
           ELSE <<matches[2]>> \o rest

\* getLabelsToAdd: the labels matching the copy pattern and not the label
\* pattern, in label order.
RECURSIVE LabelsToAdd(_, _)
LabelsToAdd(labels, from) ==
  IF from > Len(labels) THEN <<>>
  ELSE LET rest == LabelsToAdd(labels, from + 1)
       IN  IF Len(FindStringSubmatch(labels[from])) > 0 THEN rest
           ELSE IF ~CopyMatchString(labels[from]) THEN rest
           ELSE <<labels[from]>> \o rest

(***************************************************************************)
(* Requests and the Code Host's state                                      *)
(***************************************************************************)
\* Client.Repo(): githubCtx.Repo(), the owner and the repository name of
\* "owner/name".
Repo == <<githubCtx.Repository[1], githubCtx.Repository[3]>>

\* One request of the run: a Code Host call, a push or a checkout.  `ref` is
\* the ref or branch it names, `sha` the commit, `num` the issue or pull
\* request number, `what` the kind of comment or pull request, `ok` whether
\* it succeeded, `t` the index of the target it was issued for (0: none),
\* `owner` and `repo` the repository it is sent to, in the order given.
Req(op, ref, sha, num, what, ok) ==
  [op |-> op, ref |-> ref, sha |-> sha, num |-> num, what |-> what,
   ok |-> ok, t |-> ti, owner |-> Repo[1], repo |-> Repo[2]]

\* The comments that were posted: the comment requests that succeeded.
comments == SelectSeq(reqs, LAMBDA r : r.op = "CreateComment" /\ r.ok)

\* labelsToAdd of Run: getLabelsToAdd(sourcePr).
labelsToAdd == LabelsToAdd(sourcePr.labels, 1)

\* The number the Code Host gives the next pull request it creates.
NextPrNumber == sourcePr.number + Len(prs) + 1

\* The pull request record of an existing pull request number.
PrOf(number) == prs[number - sourcePr.number]

\* The target the loop is at.
targetRef == targetRefs[ti]

\* c.commitsPRCache[number], ok: whether the cache has the pull request.
Cached(number) == \E e \in commitsPRCache : e.pr = number

\* The cache after Client.GetCommits(pr) fetched `fetched`: a pull request
\* without commits returns before the cache, a cached one returns its entry,
\* and any other stores the list that was fetched.
CacheAfterGetCommits(number, fetched) ==
  IF Len(fetched) = 0 \/ Cached(number) THEN commitsPRCache
  ELSE commitsPRCache \cup {[pr |-> number, list |-> fetched]}

\* The cached slice and commitsToCherryPick share one backing array, and
\* its elements point at the commit records of the run: this holds in the
\* api engine whenever the list came from GetCommits.
SharesCache == engine = "api" /\ Cached(sourcePr.number)

\* The backing array of `old` after commitsToCherryPick := old[:0] and the
\* appends that built `kept`: the kept commits in front, behind them what
\* was there, each record as the loop left it (the committer of a kept
\* commit is rewritten through the pointer).
ArrayAfterFilter(old, kept) ==
  [p \in DOMAIN old |->
     IF p <= Len(kept) THEN kept[p]
     ELSE IF \E j \in DOMAIN kept : kept[j].sha = old[p].sha
          THEN kept[CHOOSE j \in DOMAIN kept : kept[j].sha = old[p].sha]
          ELSE old[p]]

\* A cached list after the record of `commit` was written through its
\* pointer: every element that is this record shows the write.
ListAfterWrite(list, commit) ==
  [p \in DOMAIN list |-> IF list[p].sha = commit.sha THEN commit ELSE list[p]]

\* The list cached for the pull request of the run.
CachedList == (CHOOSE e \in commitsPRCache : e.pr = sourcePr.number).list

\* The cache once the list it shares with the run reads `list`.
CacheShared(list) ==
  {IF e.pr = sourcePr.number THEN [e EXCEPT !.list = list] ELSE e
     : e \in commitsPRCache}

(***************************************************************************)
(* The GitHub context and the pull request number                          *)
(***************************************************************************)
\* A number of the event payload as JSON decoding gives it: a float64 with
\* an integral part and a fraction (in tenths).
Float(int, tenths) == [int |-> int, tenths |-> tenths]

\* fmt.Sprint of such a number: "42" for 42.0 and "42.5" for 42.5, as
\* tokens.
Sprint(number) ==
  IF number.tenths = 0 THEN <<ToString(number.int)>>
  ELSE <<ToString(number.int), ".", ToString(number.tenths)>>

\* The largest pull request number that is looked at.
MaxPrNumber == 50

\* strconv.ParseInt(s, 10, 64): the integer the digits spell, an error for
\* anything else.
ParseInt(s) ==
  IF Len(s) = 1 /\ \E n \in 0..MaxPrNumber : ToString(n) = s[1]
  THEN [err |-> FALSE,
        number |-> CHOOSE n \in 0..MaxPrNumber : ToString(n) = s[1]]
  ELSE [err |-> TRUE, number |-> 0]

\* The event payloads looked at: nil; without the field pull_request; with
\* a pull_request that is no map; with a pull_request map that has no
\* number; with a pull_request map and a number.
Payloads ==
  {[isNil |-> TRUE,  hasPr |-> FALSE, prIsMap |-> FALSE, hasNumber |-> FALSE,
    number |-> Float(0, 0)],
   [isNil |-> FALSE, hasPr |-> FALSE, prIsMap |-> FALSE, hasNumber |-> FALSE,
    number |-> Float(0, 0)],
   [isNil |-> FALSE, hasPr |-> TRUE,  prIsMap |-> FALSE, hasNumber |-> FALSE,
    number |-> Float(0, 0)],
   [isNil |-> FALSE, hasPr |-> TRUE,  prIsMap |-> TRUE,  hasNumber |-> FALSE,
    number |-> Float(0, 0)]}
  \cup {[isNil |-> FALSE, hasPr |-> TRUE, prIsMap |-> TRUE, hasNumber |-> TRUE,
          number |-> n] : n \in {Float(7, 0), Float(42, 0), Float(42, 5)}}

\* The context of the runs of Spec: a closed pull request, number 42.
RunContext ==
  [EventName |-> "pull_request", Action |-> "closed",
   Repository |-> <<"yhabteab", "/", "backbot">>,
   Event |-> [isNil |-> FALSE, hasPr |-> TRUE, prIsMap |-> TRUE,
              hasNumber |-> TRUE, number |-> Float(42, 0)]]

\* Client.GetPrNumber(): the number of the payload's pull request, or an
\* error.
GetPrNumber(ctx) ==
  IF ctx.EventName # "pull_request" THEN [err |-> TRUE, number |-> 0]
  ELSE IF ctx.Event.isNil THEN [err |-> TRUE, number |-> 0]
  ELSE IF ~ctx.Event.hasPr THEN [err |-> TRUE, number |-> 0]
  ELSE IF ~ctx.Event.prIsMap THEN [err |-> TRUE, number |-> 0]
  ELSE IF ~ctx.Event.hasNumber THEN [err |-> TRUE, number |-> 0]
  ELSE ParseInt(Sprint(ctx.Event.number))

(***************************************************************************)
(* Initial states                                                          *)
(***************************************************************************)
Init ==
  /\ engine \in Engines
  /\ config \in [ConflictHandling : ConflictHandlings,
                 MergeCommitHandling : MergeCommitHandlings,
                 Committer : {"backbot"},
                 Email : {"backbot@example.org"},
                 LabelPattern : {LabelPatternGroup}]
  /\ mk = NoMk
  /\ msgs = <<>>
  /\ commitsPRCache = {}
  /\ picks = <<>>
  /\ githubCtx = RunContext
  /\ env = NoEnv
  /\ sourcePr \in [number : {42}, merged : BOOLEAN, labels : LabelLists]
  /\ range \in Ranges
  /\ pc = "Start"
  /\ ret = "none"
  /\ targetRefs = <<>>
  /\ commits = <<>>
  /\ mergesFound = <<>>
  /\ ti = 0
  /\ ci = 0
  /\ backport = NilRef
  /\ previousCommit = NoSHA
  /\ newCommit = NoSHA
  /\ newPr = NoPr
  /\ refs = {[ref |-> FullRef(b), sha |-> TipSHA(b)] : b \in ExistingBranches}
  /\ prs = <<>>
  /\ created = <<>>
  /\ reqs = <<>>
  /\ refList = <<>>

(***************************************************************************)
(* Run, up to the loop over the targets                                    *)
(***************************************************************************)
\* Run returns: nothing more happens in this run.
Return(value) ==
  /\ ret' = value
  /\ pc' = "Done"

\* GetPrNumber and GetPR, then the merged check.
RunStart ==
  /\ pc = "Start"
  /\ LET prNumber == GetPrNumber(githubCtx)
     IN  IF prNumber.err
         THEN Return("err") /\ reqs' = reqs
         ELSE \E ok \in BOOLEAN :
                /\ reqs' = Append(reqs, Req("GetPR", <<>>, NoSHA, prNumber.number,
                                            "", ok))
                /\ IF ~ok THEN Return("err")
                   ELSE /\ pc' = IF sourcePr.merged THEN "GetTargetRefs"
                                 ELSE "NotMerged"
                        /\ ret' = ret
  /\ UNCHANGED <<githubCtx, picks, commitsPRCache, env, msgs, mk, engine, config, sourcePr, range, targetRefs, commits,
                 mergesFound, ti, ci, backport, previousCommit, newCommit,
                 newPr, refs, prs, created, refList>>

\* A plausible slip: the comment is posted and Run goes on.
NotMergedCommentGoesOn ==
  /\ pc = "NotMerged"
  /\ \E ok \in BOOLEAN :
       reqs' = Append(reqs, Req("CreateComment", <<>>, NoSHA,
                                sourcePr.number, "not-merged", ok))
  /\ pc' = "GetTargetRefs"
  /\ UNCHANGED <<githubCtx, picks, commitsPRCache, env, msgs, mk, engine, config, sourcePr,
                 range, targetRefs, commits, mergesFound, ti, ci, backport,
                 previousCommit, newCommit, newPr, refs, prs, created,
                 refList, ret>>

\* return b.github.CreateComment(ctx, srcPrNumber, "... merged pull requests only")
NotMergedComment ==
  /\ pc = "NotMerged"
  /\ \E ok \in BOOLEAN :
       /\ reqs' = Append(reqs, Req("CreateComment", <<>>, NoSHA,
                                   sourcePr.number, "not-merged", ok))
       /\ Return(IF ok THEN "nil" ELSE "err")
  /\ UNCHANGED <<githubCtx, picks, commitsPRCache, env, msgs, mk, engine, config, sourcePr, range, targetRefs, commits,
                 mergesFound, ti, ci, backport, previousCommit, newCommit,
                 newPr, refs, prs, created, refList>>

\* getTargetRefs: the api engine keeps References (full ref names), the git
\* engine branch names.
getTargetRefs ==
  LET branches == TargetBranches(sourcePr.labels, 1)
  IN  IF engine = "api"
      THEN [k \in DOMAIN branches |-> FullRef(branches[k])]
      ELSE branches

\* targetRefs := getTargetRefs(...); no target: return nil.
RunGetTargetRefs ==
  /\ pc = "GetTargetRefs"
  /\ targetRefs' = getTargetRefs
  /\ IF Len(targetRefs') = 0 THEN Return("nil")
     ELSE pc' = "Select" /\ ret' = ret
  /\ UNCHANGED <<githubCtx, picks, commitsPRCache, env, msgs, mk, engine, config, sourcePr, range, commits, mergesFound, ti,
                 ci, backport, previousCommit, newCommit, newPr, refs, prs,
                 created, reqs, refList>>

\* MergeKind and the switch on it: the commits selected for the pull request,
\* oldest first, or an error of one of the reads.
RunSelect ==
  /\ pc = "Select"
  /\ \E ok \in BOOLEAN, kind \in {Squash, MergeCommit, Rebase} :
       /\ kind = Squash => Len(range) = 1
       /\ IF ~ok THEN Return("err") /\ UNCHANGED <<commits, commitsPRCache>>
          ELSE /\ commits' = range
               /\ commitsPRCache' =
                    IF kind = MergeCommit
                    THEN CacheAfterGetCommits(sourcePr.number, range)
                    ELSE commitsPRCache
               /\ pc' = "Filter"
               /\ ret' = ret
  /\ UNCHANGED <<githubCtx, picks, env, msgs, mk, engine, config, sourcePr, range, targetRefs, mergesFound, ti,
                 ci, backport, previousCommit, newCommit, newPr, refs, prs,
                 created, reqs, refList>>

(***************************************************************************)
(* Merge-commit handling                                                   *)
(***************************************************************************)
\* api: the loop over repositoryCommits that builds commitsToCherryPick.  A
\* merge commit is skipped under "skip" and ends the run under "fail"; every
\* kept commit gets the configured committer.  `failed` is the merge commit
\* the loop returned at (NoSHA: it ran to the end).
\* A plausible slip: only the committer's name is rewritten.
WithCommitterNameOnly(commit) ==
  [commit EXCEPT !.committer.name = config.Committer]

\* commit.Commit.Committer.Name = b.config.Committer and
\* commit.Commit.Committer.Email = b.config.Email: nothing else is written.
WithCommitter(commit) ==
  [commit EXCEPT !.committer.name = config.Committer,
                 !.committer.email = config.Email]

RECURSIVE ApiFilterLoop(_, _, _)
ApiFilterLoop(cs, k, kept) ==
  IF k > Len(cs) THEN [kept |-> kept, failed |-> NoSHA]
  ELSE IF IsMergeCommit(cs[k]) /\ config.MergeCommitHandling = "skip"
       THEN ApiFilterLoop(cs, k + 1, kept)
  ELSE IF IsMergeCommit(cs[k]) /\ config.MergeCommitHandling = "fail"
       THEN [kept |-> kept, failed |-> cs[k].sha]
  ELSE ApiFilterLoop(cs, k + 1,
                     Append(kept, WithCommitter(cs[k])))

ApiFilter ==
  /\ pc = "Filter"
  /\ engine = "api"
  /\ LET r == ApiFilterLoop(commits, 1, <<>>)
     IN  /\ commits' = r.kept
         /\ mergesFound' = IF r.failed = NoSHA THEN <<>> ELSE <<r.failed>>
         /\ pc' = IF r.failed # NoSHA THEN "MergeAbort"
                  ELSE IF Len(r.kept) = 0 THEN "NoCommits"
                  ELSE "Loop"
         /\ ti' = IF r.failed = NoSHA /\ Len(r.kept) > 0 THEN 1 ELSE ti
         /\ commitsPRCache' =
              IF SharesCache
              THEN CacheShared(ArrayAfterFilter(CachedList, r.kept))
              ELSE commitsPRCache
  /\ UNCHANGED <<githubCtx, picks, env, msgs, mk, engine, config, sourcePr, range, ret, targetRefs, ci,
                 backport, previousCommit, newCommit, newPr, refs, prs,
                 created, reqs, refList>>

\* git rev-list --reverse --merges first^..last: the commits of the range
\* with more than one parent, oldest first.
RevListMerges(cs) ==
  LET merges == SelectSeq(cs, LAMBDA c : Len(c.parents) > 1)
  IN  [k \in DOMAIN merges |-> merges[k].sha]

\* slices.Contains(list, x)
Contains(list, x) == \E k \in DOMAIN list : list[k] = x

\* A plausible slip: the merge commits found are not removed.
DeleteMergesKeepsAll(cs, merges) == cs

\* slices.DeleteFunc(commitSHAs, func(s) { return slices.Contains(merges, s) })
DeleteMerges(cs, merges) ==
  SelectSeq(cs, LAMBDA c : ~Contains(merges, c.sha))

\* git: backport.go:110-134.  commitSHAs[0] of an empty list is an index out
\* of range: the run panics.  Merge commits found: "abort" ends the run with
\* a comment, every other value removes them from the list.
GitFilter ==
  /\ pc = "Filter"
  /\ engine = "git"
  /\ \E ok \in BOOLEAN :
       IF Len(commits) = 0
       THEN /\ Return("panic")
            /\ UNCHANGED <<commits, mergesFound, ti>>
       ELSE IF ~ok
       THEN /\ Return("err")
            /\ UNCHANGED <<commits, mergesFound, ti>>
       ELSE LET merges == RevListMerges(commits)
                abort  == /\ Len(merges) # 0
                          /\ config.MergeCommitHandling = MergeCommitHandlingAbort
                kept   == IF Len(merges) # 0 /\ ~abort
                          THEN DeleteMerges(commits, merges) ELSE commits
            IN  /\ mergesFound' = merges
                /\ commits' = kept
                /\ pc' = IF abort THEN "MergeAbort"
                         ELSE IF Len(kept) = 0 THEN "NoCommits"
                         ELSE "Loop"
                /\ ti' = IF ~abort /\ Len(kept) > 0 THEN 1 ELSE ti
                /\ ret' = ret
  /\ UNCHANGED <<githubCtx, picks, commitsPRCache, env, msgs, mk, engine, config, sourcePr, range, targetRefs, ci, backport,
                 previousCommit, newCommit, newPr, refs, prs, created, reqs,
                 refList>>

\* return b.github.CreateComment(ctx, prNumber, "... Found merge commit ...")
MergeAbortComment ==
  /\ pc = "MergeAbort"
  /\ \E ok \in BOOLEAN :
       /\ reqs' = Append(reqs, Req("CreateComment", <<>>, mergesFound[1],
                                   sourcePr.number, "merge-abort", ok))
       /\ Return(IF ok THEN "nil" ELSE "err")
  /\ UNCHANGED <<githubCtx, picks, commitsPRCache, env, msgs, mk, engine, config, sourcePr, range, targetRefs, commits,
                 mergesFound, ti, ci, backport, previousCommit, newCommit,
                 newPr, refs, prs, created, refList>>

\* return b.github.CreateComment(ctx, prNumber, "... No commits to cherry-pick ...")
NoCommitsComment ==
  /\ pc = "NoCommits"
  /\ \E ok \in BOOLEAN :
       /\ reqs' = Append(reqs, Req("CreateComment", <<>>, NoSHA,
                                   sourcePr.number, "no-commits", ok))
       /\ Return(IF ok THEN "nil" ELSE "err")
  /\ UNCHANGED <<githubCtx, picks, commitsPRCache, env, msgs, mk, engine, config, sourcePr, range, targetRefs, commits,
                 mergesFound, ti, ci, backport, previousCommit, newCommit,
                 newPr, refs, prs, created, refList>>

(***************************************************************************)
(* The Code Host                                                           *)
(***************************************************************************)
RefExists(name) == \E r \in refs : r.ref = name

\* The commit a ref points at (NoSHA: no such ref).
RefSHA(name) ==
  IF RefExists(name) THEN (CHOOSE r \in refs : r.ref = name).sha ELSE NoSHA

\* The Code Host's refs once `name` points at `sha`.
SetRef(name, sha) ==
  {r \in refs : r.ref # name} \cup {[ref |-> name, sha |-> sha]}

\* A plausible slip: the delete request removes nothing.
DropRefKeeps(name) == refs

\* The Code Host's refs after a successful delete of `name`.
DropRef(name) == {r \in refs : r.ref # name}

\* Client.CreateRef(head, sha): the Reference created for "refs/heads/"+head.
CreateRefResult(head, sha) == [ref |-> <<RefPrefix>> \o head, sha |-> sha]

\* Client.UpdateRef(ref, sha, force): the updated Reference, nil on an error
\* (as every wrapper of the client returns nil with its error).
UpdateRefResult(name, sha, ok) ==
  IF ok THEN [ref |-> FullRef(name), sha |-> sha] ELSE NilRef

\* A plausible slip: head and base are exchanged.
makeNewPullRequestSwapped(target, backportRef, draft) ==
  [head |-> trimRefPrefix(target),
   base |-> trimRefPrefix(backportRef.ref),
   draft |-> draft]

\* makeNewPullRequest of the api engine: target and backport are References.
makeNewPullRequestOfRef(target, backportRef, draft) ==
  [head |-> trimRefPrefix(backportRef.ref),
   base |-> trimRefPrefix(target),
   draft |-> draft]

\* makeNewPullRequest of the git engine: target and backport are branch names.
makeNewPullRequest(target, backportName, draft) ==
  [head |-> backportName, base |-> target, draft |-> draft]

\* The pull request the Code Host creates for a request: it gets the next
\* number, and its head commit is what the head branch points at.
CreatedPr(new) ==
  [number  |-> NextPrNumber,
   head    |-> new.head,
   base    |-> new.base,
   draft   |-> new.draft,
   headSHA |-> RefSHA(FullRef(new.head)),
   t       |-> ti]

\* createEmptyCommit(ref): the commit object submitted as the draft's base.
createEmptyCommit(ref) ==
  [sha |-> NoSHA, parents |-> <<ref.sha>>, tree |-> ref.sha,
   author |-> "", committer |-> [name |-> "", email |-> ""]]

\* A plausible slip: every commit gains the parent, none has it replaced.
addParentAppends(commit, parentSHA) ==
  [commit EXCEPT !.parents = Append(@, parentSHA)]

\* addParent of cherryPickCommits: a merge commit gains a parent, every other
\* commit gets exactly the given parent.
addParent(commit, parentSHA) ==
  IF IsMergeCommit(commit)
  THEN [commit EXCEPT !.parents = Append(@, parentSHA)]
  ELSE [commit EXCEPT !.parents = <<parentSHA>>]

\* The commit object created from a submitted one; `src` is the commit it
\* replays (NoSHA: none) and `kind` says what it is: a "replay", the "empty"
\* base of a draft, or the "draft" commit holding a conflict.
CreatedCommit(commit, src, kind) ==
  [sha       |-> NewSHA(Len(created) + 1),
   src       |-> src,
   kind      |-> kind,
   parents   |-> commit.parents,
   tree      |-> commit.tree,
   author    |-> commit.author,
   committer |-> commit.committer,
   t         |-> ti]

(***************************************************************************)
(* api engine: the loop of Run and cherryPickCommits                       *)
(***************************************************************************)
\* What no step of the loop changes.
fixed == <<githubCtx, commitsPRCache, env, msgs, mk, engine, config, sourcePr, range, targetRefs, mergesFound, ret>>

\* A plausible slip: a failed branch creation leaves the loop.
ContinueAsBreak == ti' = Len(targetRefs) + 1

\* `continue` in the loop over targetRefs: on to the next target.
Continue == ti' = ti + 1

\* Run: backportBranch := makeBackportBranchName(...); CreateRef at the
\* target's tip.  A failure skips the target (continue).
ApiCreateRef ==
  /\ pc = "Loop"
  /\ engine = "api"
  /\ ti <= Len(targetRefs)
  /\ LET head == makeBackportBranchNameOfRef(ToString(sourcePr.number), targetRef)
         sha  == TipSHA(trimRefPrefix(targetRef))
         ref  == CreateRefResult(head, sha)
     IN  \E ok \in BOOLEAN :
           /\ ok => ~RefExists(ref.ref)
           /\ reqs' = Append(reqs, Req("CreateRef", ref.ref, sha, NoPr, "", ok))
           /\ IF ok
              THEN /\ refs' = SetRef(ref.ref, sha)
                   /\ backport' = ref
                   /\ previousCommit' = NoSHA
                   /\ newCommit' = NoSHA
                   /\ newPr' = NoPr
                   /\ ci' = 1
                   /\ pc' = "Replay"
                   /\ ti' = ti
              ELSE /\ Continue
                   /\ UNCHANGED <<refs, backport, previousCommit, newCommit,
                                  newPr, ci, pc>>
  /\ UNCHANGED <<picks, fixed, commits, prs, created, refList>>

\* A plausible slip: the draft is based on the branch's starting point.
LastReplayedAsTip == backport.sha

\* newCommit = previousCommit: the last successfully replayed commit is the
\* base of the draft.
LastReplayed == previousCommit

\* cherryPickCommits: one pass of the loop over commits: addParent, then
\* CreateCommit, which succeeds, conflicts (ErrConflict) or fails otherwise.
ApiCreateCommit ==
  /\ pc = "Replay"
  /\ engine = "api"
  /\ LET parent == IF previousCommit = NoSHA THEN backport.sha ELSE previousCommit
         commit == addParent(commits[ci], parent)
     IN  /\ commits' = [commits EXCEPT ![ci] = commit]
         /\ commitsPRCache' =
              IF SharesCache
              THEN CacheShared(ListAfterWrite(CachedList, commit))
              ELSE commitsPRCache
         /\ \E outcome \in {"ok", "conflict", "error"} :
              /\ reqs' = Append(reqs, Req("CreateCommit", backport.ref, commit.sha,
                                          NoPr, outcome, outcome = "ok"))
              /\ CASE outcome = "ok" ->
                        /\ created' = Append(created, CreatedCommit(commit, commit.sha, "replay"))
                        /\ previousCommit' = NewSHA(Len(created) + 1)
                        /\ IF ci < Len(commits)
                           THEN ci' = ci + 1 /\ pc' = pc
                           ELSE ci' = ci /\ pc' = "UpdateRef"
                        /\ newCommit' = newCommit
                   [] outcome = "conflict" ->
                        /\ IF config.ConflictHandling = "draft"
                           THEN IF ci = 1
                                THEN pc' = "EmptyCommit" /\ newCommit' = newCommit
                                ELSE pc' = "DraftUpdateRef" /\ newCommit' = LastReplayed
                           ELSE pc' = "AbortComment" /\ newCommit' = newCommit
                        /\ UNCHANGED <<created, previousCommit, ci>>
                   [] outcome = "error" ->
                        /\ pc' = "DeleteRef"
                        /\ UNCHANGED <<created, previousCommit, ci, newCommit>>
  /\ UNCHANGED <<githubCtx, picks, env, msgs, mk, engine, config, sourcePr, range, targetRefs,
                 mergesFound, ret, ti, backport, newPr, refs, prs, refList>>

\* Draft policy, first commit conflicts: CreateCommit(createEmptyCommit(backport)).
ApiEmptyCommit ==
  /\ pc = "EmptyCommit"
  /\ LET commit == createEmptyCommit(backport)
     IN  \E ok \in BOOLEAN :
           /\ reqs' = Append(reqs, Req("CreateCommit", backport.ref, NoSHA, NoPr,
                                       "empty", ok))
           /\ IF ok
              THEN /\ created' = Append(created, CreatedCommit(commit, NoSHA, "empty"))
                   /\ newCommit' = NewSHA(Len(created) + 1)
                   /\ pc' = "DraftUpdateRef"
              ELSE /\ pc' = "DeleteRef"
                   /\ UNCHANGED <<created, newCommit>>
  /\ UNCHANGED <<picks, fixed, commits, ti, ci, backport, previousCommit, newPr, refs,
                 prs, refList>>

\* Draft policy: backport, err = UpdateRef(backport.GetRef(), newCommit.GetSHA()):
\* the variable `backport` takes the call's result also when the call fails.
ApiDraftUpdateRef ==
  /\ pc = "DraftUpdateRef"
  /\ \E ok \in BOOLEAN :
       /\ ok => RefExists(FullRef(backport.ref))
       /\ reqs' = Append(reqs, Req("UpdateRef", backport.ref, newCommit, NoPr, "", ok))
       /\ backport' = UpdateRefResult(backport.ref, newCommit, ok)
       /\ IF ok
          THEN refs' = SetRef(FullRef(backport.ref), newCommit) /\ pc' = "DraftCreatePR"
          ELSE refs' = refs /\ pc' = "DeleteRef"
  /\ UNCHANGED <<picks, fixed, commits, ti, ci, previousCommit, newCommit, newPr, prs,
                 created, refList>>

\* Draft policy: CreatePR(makeNewPullRequest(sourcePr, target, backport, true)).
ApiDraftCreatePR ==
  /\ pc = "DraftCreatePR"
  /\ engine = "api"
  /\ LET new == makeNewPullRequestOfRef(targetRef, backport, TRUE)
     IN  \E ok \in BOOLEAN :
           /\ ok => RefExists(FullRef(new.head))
           /\ reqs' = Append(reqs, Req("CreatePR", new.head, RefSHA(FullRef(new.head)),
                                       NextPrNumber, "draft", ok))
           /\ IF ok
              THEN /\ prs' = Append(prs, CreatedPr(new))
                   /\ newPr' = NextPrNumber
                   /\ pc' = "DraftLabelPR"
              ELSE /\ pc' = "DeleteRef"
                   /\ UNCHANGED <<prs, newPr>>
  /\ UNCHANGED <<picks, fixed, commits, ti, ci, backport, previousCommit, newCommit,
                 refs, created, refList>>

\* Client.LabelPR(pr, labels...): no request when there is no label to add;
\* `repo, owner := c.Repo()` names the two results of Repo in this order,
\* and the request is sent with (owner, repo).
LabelPR(number, next) ==
  /\ IF Len(labelsToAdd) = 0
     THEN reqs' = reqs
     ELSE LET repo  == Repo[1]
              owner == Repo[2]
          IN  \E ok \in BOOLEAN :
                reqs' = Append(reqs,
                               [Req("LabelPR", <<>>, NoSHA, number, "", ok)
                                  EXCEPT !.owner = owner, !.repo = repo])
  /\ pc' = next

\* Draft policy: LabelPR(ctx, sourcePr, labelsToAdd...).
ApiDraftLabelPR ==
  /\ pc = "DraftLabelPR"
  /\ LabelPR(sourcePr.number, "DraftCommentSrc")
  /\ UNCHANGED <<picks, fixed, commits, ti, ci, backport, previousCommit, newCommit,
                 newPr, refs, prs, created, refList>>

\* Client.CreateComment(issueNumber, body): a failure is logged by the caller.
CreateComment(number, what, next) ==
  /\ \E ok \in BOOLEAN :
       reqs' = Append(reqs, Req("CreateComment", backport.ref, NoSHA, number, what, ok))
  /\ pc' = next

\* One line of the manual steps: the command, its names and its SHAs.
Step(cmd, args, shas) == [cmd |-> cmd, args |-> args, shas |-> shas]

\* strings.ReplaceAll(refName, "/", "-")
ReplaceSlash(name) ==
  [k \in DOMAIN name |-> IF name[k] = "/" THEN "-" ELSE name[k]]

\* b.listManualSteps(commits, ref, haveEmptyCommit) of the Code Host API
\* engine: the reset and the push are emitted with an empty commit only.
listManualStepsOfRef(cs, ref, haveEmptyCommit) ==
  LET normalizedRefName == trimRefPrefix(ref.ref)
      worktree == <<"backbot/">> \o normalizedRefName
  IN  << Step("git fetch origin", <<normalizedRefName>>, <<>>),
         Step("git worktree add --checkout",
              <<worktree, <<"origin/">> \o normalizedRefName>>, <<>>),
         Step("cd", <<worktree>>, <<>>) >>
      \o (IF haveEmptyCommit
          THEN <<Step("git reset --hard HEAD^", <<>>, <<>>)>> ELSE <<>>)
      \o <<Step("git cherry-pick -x", <<>>, [k \in DOMAIN cs |-> cs[k].sha])>>
      \o (IF haveEmptyCommit
          THEN <<Step("git push --force-with-lease", <<>>, <<>>)>> ELSE <<>>)
      \o << Step("cd -", <<>>, <<>>),
            Step("git worktree remove", <<worktree>>, <<>>) >>

\* listManualSteps(refName, commitSHAs) of the git engine; the worktree is
\* added from origin/<worktree>: the verb %[1]s takes the first argument.
listManualSteps(refName, commitSHAs) ==
  LET worktree == ReplaceSlash(refName)
  IN  << Step("git fetch origin", <<refName>>, <<>>),
         Step("git worktree add --checkout",
              <<worktree, <<"origin/">> \o worktree>>, <<>>),
         Step("cd", <<worktree>>, <<>>),
         Step("git reset --hard HEAD^", <<>>, <<>>),
         Step("git cherry-pick -x", <<>>, commitSHAs),
         Step("git push --force", <<>>, <<>>),
         Step("cd -", <<>>, <<>>),
         Step("git worktree remove", <<worktree>>, <<>>) >>

\* A plausible slip: the whole list is handed to listManualSteps.
RemainingAll == commits

\* commits[i:] / commitSHAs[i:]: the conflicting commit and those after it.
Remaining == SubSeq(commits, ci, Len(commits))

\* msg: the conflicting commit, the target, and the manual steps.
DraftMessage ==
  [commit |-> commits[ci].sha,
   target |-> trimRefPrefix(targetRef),
   steps  |-> IF engine = "api"
              THEN listManualStepsOfRef(Remaining, backport, ci = 1)
              ELSE listManualSteps(backport.ref,
                                   [k \in DOMAIN Remaining |-> Remaining[k].sha])]

\* Draft policy: the recovery message on the source pull request.
DraftCommentSrc ==
  /\ pc = "DraftCommentSrc"
  /\ CreateComment(sourcePr.number, "draft-steps", "DraftCommentPr")
  /\ msgs' = Append(msgs, [t |-> ti, num |-> sourcePr.number, body |-> DraftMessage])
  /\ UNCHANGED <<githubCtx, picks, commitsPRCache, env, mk, engine, config, sourcePr, range, targetRefs,
                 mergesFound, ret, commits, ti, ci, backport, previousCommit, newCommit,
                 newPr, refs, prs, created, refList>>

\* Draft policy: the same message on the draft pull request; return newPr.
DraftCommentPr ==
  /\ pc = "DraftCommentPr"
  /\ CreateComment(newPr, "draft-steps", "TargetDone")
  /\ msgs' = Append(msgs, [t |-> ti, num |-> newPr, body |-> DraftMessage])
  /\ UNCHANGED <<githubCtx, picks, commitsPRCache, env, mk, engine, config, sourcePr, range, targetRefs,
                 mergesFound, ret, commits, ti, ci, backport, previousCommit, newCommit,
                 newPr, refs, prs, created, refList>>

\* Abort policy: the conflict comment on the source pull request.
ApiAbortComment ==
  /\ pc = "AbortComment"
  /\ engine = "api"
  /\ CreateComment(sourcePr.number, "conflict-abort", "DeleteRef")
  /\ UNCHANGED <<picks, fixed, commits, ti, ci, backport, previousCommit, newCommit,
                 newPr, refs, prs, created, refList>>

\* deleteRef(): DeleteRef(backport.GetRef()) with the current value of the
\* variable `backport`; a failure is logged.  cherryPickCommits returns nil.
ApiDeleteRef ==
  /\ pc = "DeleteRef"
  /\ \E ok \in BOOLEAN :
       /\ ok => RefExists(backport.ref)
       /\ reqs' = Append(reqs, Req("DeleteRef", backport.ref, RefSHA(backport.ref),
                                   NoPr, "", ok))
       /\ refs' = IF ok THEN DropRef(backport.ref) ELSE refs
  /\ newPr' = NoPr
  /\ pc' = "TargetDone"
  /\ UNCHANGED <<picks, fixed, commits, ti, ci, backport, previousCommit, newCommit,
                 prs, created, refList>>

\* All commits replayed: UpdateRef(backportBranch, previousCommit.GetSHA()).
ApiUpdateRef ==
  /\ pc = "UpdateRef"
  /\ LET backportBranch == trimRefPrefix(backport.ref)
     IN  \E ok \in BOOLEAN :
           /\ ok => RefExists(FullRef(backportBranch))
           /\ reqs' = Append(reqs, Req("UpdateRef", backportBranch, previousCommit,
                                       NoPr, "", ok))
           /\ IF ok
              THEN /\ backport' = UpdateRefResult(backportBranch, previousCommit, ok)
                   /\ refs' = SetRef(FullRef(backportBranch), previousCommit)
                   /\ pc' = "CreatePR"
              ELSE /\ pc' = "DeleteRef"
                   /\ UNCHANGED <<backport, refs>>
  /\ UNCHANGED <<picks, fixed, commits, ti, ci, previousCommit, newCommit, newPr, prs,
                 created, refList>>

\* CreatePR(makeNewPullRequest(sourcePr, target, backport, false)).
ApiCreatePR ==
  /\ pc = "CreatePR"
  /\ engine = "api"
  /\ LET new == makeNewPullRequestOfRef(targetRef, backport, FALSE)
     IN  \E ok \in BOOLEAN :
           /\ ok => RefExists(FullRef(new.head))
           /\ reqs' = Append(reqs, Req("CreatePR", new.head, RefSHA(FullRef(new.head)),
                                       NextPrNumber, "normal", ok))
           /\ IF ok
              THEN /\ prs' = Append(prs, CreatedPr(new))
                   /\ newPr' = NextPrNumber
                   /\ pc' = "LabelPR"
              ELSE /\ pc' = "DeleteRef"
                   /\ UNCHANGED <<prs, newPr>>
  /\ UNCHANGED <<picks, fixed, commits, ti, ci, backport, previousCommit, newCommit,
                 refs, created, refList>>

\* LabelPR(ctx, newPr, labelsToAdd...); return newPr.
ApiLabelPR ==
  /\ pc = "LabelPR"
  /\ LabelPR(newPr, "TargetDone")
  /\ UNCHANGED <<picks, fixed, commits, ti, ci, backport, previousCommit, newCommit,
                 newPr, refs, prs, created, refList>>

\* Run, after cherryPickCommits: a returned non-draft pull request is listed.
ApiTargetDone ==
  /\ pc = "TargetDone"
  /\ engine = "api"
  /\ refList' = IF newPr # NoPr /\ ~PrOf(newPr).draft
                THEN Append(refList, [ref |-> trimRefPrefix(backport.ref), pr |-> newPr])
                ELSE refList
  /\ ti' = ti + 1
  /\ pc' = "Loop"
  /\ UNCHANGED <<picks, fixed, commits, ci, backport, previousCommit, newCommit, newPr,
                 refs, prs, created, reqs>>

\* A plausible slip: a failure to post the final comment is only logged.
FinalResultLogged(ok) == "nil"

\* What Run returns after its final comment: the error of CreateComment.
FinalResult(ok) == IF ok THEN "nil" ELSE "err"

\* Run, after the loop: the summary comment is posted in every case.
ApiFinalComment ==
  /\ pc = "Loop"
  /\ engine = "api"
  /\ ti > Len(targetRefs)
  /\ \E ok \in BOOLEAN :
       /\ reqs' = Append(reqs, Req("CreateComment", <<>>, NoSHA, sourcePr.number,
                                   "summary", ok))
       /\ Return(FinalResult(ok))
  /\ UNCHANGED <<githubCtx, picks, commitsPRCache, env, msgs, mk, engine, config, sourcePr, range, targetRefs, mergesFound,
                 commits, ti, ci, backport, previousCommit, newCommit, newPr,
                 refs, prs, created, refList>>

(***************************************************************************)
(* git engine: the loop of Run and cherryPick                              *)
(***************************************************************************)
\* Run: backportRef := makeBackportBranchName(...); git switch --create
\* backportRef origin/targetRef.  A failure skips the target (continue).
GitCheckout ==
  /\ pc = "Loop"
  /\ engine = "git"
  /\ ti <= Len(targetRefs)
  /\ LET backportRef == makeBackportBranchName(ToString(sourcePr.number), targetRef)
         sha         == TipSHA(targetRef)
     IN  \E ok \in BOOLEAN :
           /\ reqs' = Append(reqs, Req("Checkout", backportRef, sha, NoPr, "", ok))
           /\ IF ok
              THEN /\ backport' = [ref |-> backportRef, sha |-> sha]
                   /\ previousCommit' = sha
                   /\ newCommit' = NoSHA
                   /\ newPr' = NoPr
                   /\ ci' = 1
                   /\ pc' = "Replay"
                   /\ ti' = ti
              ELSE /\ Continue
                   /\ UNCHANGED <<backport, previousCommit, newCommit, newPr,
                                  ci, pc>>
  /\ UNCHANGED <<picks, fixed, commits, refs, prs, created, refList>>

\* The arguments Git.CherryPick gives git after the options:
\* append(cmd, commits...) where cmd already ends with the commits.
CherryPickArgs(list) == list \o list

\* The record of one run of git cherry-pick: the commits CherryPick was
\* given and the SHAs its command line lists after the options.
PickCommand(list) ==
  [given |-> [k \in DOMAIN list |-> list[k].sha],
   args  |-> [k \in DOMAIN CherryPickArgs(list) |-> CherryPickArgs(list)[k].sha]]

\* The commit git creates on HEAD for the pick of `commit`: the parent is
\* HEAD, the author is kept and the committer is the configured one.
PickedCommit(commit, head) ==
  [commit EXCEPT !.parents = <<head>>,
                 !.tree = TreeOf(NewSHA(Len(created) + 1)),
                 !.committer = [name  |-> config.Committer,
                                 email |-> config.Email]]

\* The commits a successful git cherry-pick --empty=drop of `args` leaves on
\* top of `head`: one for each commit whose change is not yet on the branch
\* (a pick that has become empty is dropped).
RECURSIVE Picked(_, _, _, _)
Picked(args, k, head, done) ==
  IF k > Len(args) THEN done
  ELSE IF \E j \in DOMAIN done : done[j].src = args[k].sha
       THEN Picked(args, k + 1, head, done)
       ELSE LET n   == Len(created) + Len(done) + 1
                new == [sha       |-> NewSHA(n),
                        src       |-> args[k].sha,
                        kind      |-> "replay",
                        parents   |-> <<head>>,
                        tree      |-> TreeOf(NewSHA(n)),
                        author    |-> args[k].author,
                        committer |-> [name  |-> config.Committer,
                                       email |-> config.Email],
                        t         |-> ti]
            IN  Picked(args, k + 1, NewSHA(n), Append(done, new))

\* Abort policy: CherryPick(ctx, false, commitSHAs...).  Every failure, a
\* conflict or not, is answered with the conflict comment; git cherry-pick
\* --abort returns the branch to its state before the picks.
GitCherryPickAll ==
  /\ pc = "Replay"
  /\ engine = "git"
  /\ config.ConflictHandling = ConflictHandlingAbort
  /\ picks' = Append(picks, PickCommand(commits))
  /\ \E outcome \in {"ok", "conflict", "error"} :
       /\ reqs' = Append(reqs, Req("CherryPick", backport.ref, commits[1].sha, NoPr,
                                   outcome, outcome = "ok"))
       /\ IF outcome = "ok"
          THEN LET done == Picked(CherryPickArgs(commits), 1, previousCommit, <<>>)
               IN  /\ created' = created \o done
                   /\ previousCommit' = done[Len(done)].sha
                   /\ pc' = "Push"
          ELSE /\ pc' = "AbortComment"
               /\ UNCHANGED <<created, previousCommit>>
  /\ UNCHANGED <<fixed, commits, ti, ci, backport, newCommit, newPr, refs, prs,
                 refList>>

\* Abort policy: the conflict comment; cherryPick returns nil.
GitAbortComment ==
  /\ pc = "AbortComment"
  /\ engine = "git"
  /\ CreateComment(sourcePr.number, "conflict-abort", "TargetDone")
  /\ newPr' = NoPr
  /\ UNCHANGED <<picks, fixed, commits, ti, ci, backport, previousCommit, newCommit,
                 refs, prs, created, refList>>

\* Draft policy: CherryPick(ctx, true, commitSHA) for the commit at ci.
\*   "ok":       the commit is picked;
\*   "conflict": git cherry-pick exits with 1, the conflicting state is
\*               committed as a draft commit and the error is a conflict;
\*   "commit1":  as before, but git commit fails with exit status 1: no
\*               draft commit, and the error still counts as a conflict;
\*   "error":    any other failure: cherryPick returns nil.
GitCherryPickOne ==
  /\ pc = "Replay"
  /\ engine = "git"
  /\ config.ConflictHandling = ConflictHandlingDraft
  /\ picks' = Append(picks, PickCommand(<<commits[ci]>>))
  /\ \E outcome \in {"ok", "conflict", "commit1", "error"} :
       /\ reqs' = Append(reqs, Req("CherryPick", backport.ref, commits[ci].sha, NoPr,
                                   outcome, outcome = "ok"))
       /\ CASE outcome = "ok" ->
                 LET done == Picked(CherryPickArgs(<<commits[ci]>>), 1,
                                    previousCommit, <<>>)
                 IN  /\ created' = created \o done
                     /\ previousCommit' = done[Len(done)].sha
                     /\ IF ci < Len(commits)
                        THEN ci' = ci + 1 /\ pc' = pc
                        ELSE ci' = ci /\ pc' = "Push"
                     /\ newPr' = newPr
            [] outcome = "conflict" ->
                 /\ created' = Append(created,
                        CreatedCommit(PickedCommit(commits[ci], previousCommit),
                                      commits[ci].sha, "draft"))
                 /\ previousCommit' = NewSHA(Len(created) + 1)
                 /\ pc' = "DraftPush"
                 /\ UNCHANGED <<ci, newPr>>
            [] outcome = "commit1" ->
                 /\ pc' = "DraftPush"
                 /\ UNCHANGED <<created, previousCommit, ci, newPr>>
            [] outcome = "error" ->
                 /\ pc' = "TargetDone"
                 /\ newPr' = NoPr
                 /\ UNCHANGED <<created, previousCommit, ci>>
  /\ UNCHANGED <<fixed, commits, ti, backport, newCommit, refs, prs, refList>>

\* Git.Push(ref): git push --set-upstream origin ref; the remote branch then
\* points at the local HEAD.
Push(next) ==
  \E ok \in BOOLEAN :
    /\ reqs' = Append(reqs, Req("Push", backport.ref, previousCommit, NoPr, "", ok))
    /\ IF ok
       THEN /\ refs' = SetRef(FullRef(backport.ref), previousCommit)
            /\ pc' = next
            /\ newPr' = newPr
       ELSE /\ refs' = refs
            /\ pc' = "TargetDone"
            /\ newPr' = NoPr

\* Draft policy, after a conflict: push the branch with the draft commit.
GitDraftPush ==
  /\ pc = "DraftPush"
  /\ Push("DraftCreatePR")
  /\ UNCHANGED <<picks, fixed, commits, ti, ci, backport, previousCommit, newCommit,
                 prs, created, refList>>

\* Client.CreatePR for the git engine: a failure makes cherryPick return nil.
GitCreatePRCall(draft, next) ==
  LET new == makeNewPullRequest(targetRef, backport.ref, draft)
  IN  \E ok \in BOOLEAN :
        /\ ok => RefExists(FullRef(new.head))
        /\ reqs' = Append(reqs, Req("CreatePR", new.head, RefSHA(FullRef(new.head)),
                                    NextPrNumber,
                                    IF draft THEN "draft" ELSE "normal", ok))
        /\ IF ok
           THEN /\ prs' = Append(prs, CreatedPr(new))
                /\ newPr' = NextPrNumber
                /\ pc' = next
           ELSE /\ prs' = prs
                /\ newPr' = NoPr
                /\ pc' = "TargetDone"

\* Draft policy: CreatePR(makeNewPullRequest(srcPr, targetRef, backportRef, true)).
GitDraftCreatePR ==
  /\ pc = "DraftCreatePR"
  /\ engine = "git"
  /\ GitCreatePRCall(TRUE, "DraftCommentSrc")
  /\ UNCHANGED <<picks, fixed, commits, ti, ci, backport, previousCommit, newCommit,
                 refs, created, refList>>

\* All commits picked: push the backport branch.
GitPush ==
  /\ pc = "Push"
  /\ Push("CreatePR")
  /\ UNCHANGED <<picks, fixed, commits, ti, ci, backport, previousCommit, newCommit,
                 prs, created, refList>>

\* CreatePR(makeNewPullRequest(srcPr, targetRef, backportRef, false)); return newPr.
GitCreatePR ==
  /\ pc = "CreatePR"
  /\ engine = "git"
  /\ GitCreatePRCall(FALSE, "TargetDone")
  /\ UNCHANGED <<picks, fixed, commits, ti, ci, backport, previousCommit, newCommit,
                 refs, created, refList>>

\* Run, after cherryPick returned nil: next target.
GitTargetFailed ==
  /\ pc = "TargetDone"
  /\ engine = "git"
  /\ newPr = NoPr
  /\ ti' = ti + 1
  /\ pc' = "Loop"
  /\ UNCHANGED <<picks, fixed, commits, ci, backport, previousCommit, newCommit, newPr,
                 refs, prs, created, reqs, refList>>

\* Run, after cherryPick returned a pull request: LabelPR(ctx, sourcePr, ...).
GitLabelPR ==
  /\ pc = "TargetDone"
  /\ engine = "git"
  /\ newPr # NoPr
  /\ LabelPR(sourcePr.number, "Dispatch")
  /\ UNCHANGED <<picks, fixed, commits, ti, ci, backport, previousCommit, newCommit,
                 newPr, refs, prs, created, refList>>

\* Run: DisPatchPrCreatedEvent(newPr), then the target and its pull request
\* are listed for the final comment.
GitDispatch ==
  /\ pc = "Dispatch"
  /\ \E ok \in BOOLEAN :
       reqs' = Append(reqs, Req("Dispatch", <<>>, NoSHA, newPr, "", ok))
  /\ refList' = Append(refList, [ref |-> targetRef, pr |-> newPr])
  /\ ti' = ti + 1
  /\ pc' = "Loop"
  /\ UNCHANGED <<picks, fixed, commits, ci, backport, previousCommit, newCommit, newPr,
                 refs, prs, created>>

\* Run, after the loop: "No backport PRs were created" or the summary.
GitFinalComment ==
  /\ pc = "Loop"
  /\ engine = "git"
  /\ ti > Len(targetRefs)
  /\ \E ok \in BOOLEAN :
       /\ reqs' = Append(reqs, Req("CreateComment", <<>>, NoSHA, sourcePr.number,
                                   IF Len(refList) = 0 THEN "nothing-created"
                                   ELSE "summary", ok))
       /\ Return(FinalResult(ok))
  /\ UNCHANGED <<githubCtx, picks, commitsPRCache, env, msgs, mk, engine, config, sourcePr, range, targetRefs, mergesFound,
                 commits, ti, ci, backport, previousCommit, newCommit, newPr,
                 refs, prs, created, refList>>

NextGit ==
  \/ GitFilter \/ GitCheckout \/ GitCherryPickAll \/ GitAbortComment
  \/ GitCherryPickOne \/ GitDraftPush \/ GitDraftCreatePR \/ GitPush
  \/ GitCreatePR \/ GitTargetFailed \/ GitLabelPR \/ GitDispatch
  \/ GitFinalComment

NextApi ==
  \/ ApiFilter \/ ApiCreateRef \/ ApiCreateCommit \/ ApiEmptyCommit
  \/ ApiDraftUpdateRef \/ ApiDraftCreatePR \/ ApiDraftLabelPR
  \/ ApiAbortComment \/ ApiDeleteRef \/ ApiUpdateRef \/ ApiCreatePR
  \/ ApiLabelPR \/ ApiTargetDone \/ ApiFinalComment

Next ==
  \/ RunStart \/ NotMergedComment \/ RunGetTargetRefs \/ RunSelect
  \/ MergeAbortComment \/ NoCommitsComment
  \/ DraftCommentSrc \/ DraftCommentPr
  \/ NextApi
  \/ NextGit

Spec == Init /\ [][Next]_vars

(***************************************************************************)
(* Strategy detection, commit selection and target resolution: the         *)
(* functions Run calls before the loop, applied to a pull request drawn    *)
(* from PullRequests.  `commits` holds the selected list, `targetRefs` the *)
(* resolved targets, `mk` the detected strategy.                           *)
(***************************************************************************)
\* Changed files as the Code Host reports them.
FileA  == [filename |-> "a.go", additions |-> 1, deletions |-> 0,
           changes |-> 1, patch |-> "+a"]
\* FileA with another patch text and the same counts.
FileAp == [FileA EXCEPT !.patch = "+A"]
\* FileA with a deletion instead of an addition: the same number of changes.
FileAd == [FileA EXCEPT !.additions = 0, !.deletions = 1]
FileB  == [filename |-> "b.go", additions |-> 1, deletions |-> 0,
           changes |-> 1, patch |-> "+a"]

FileLists ==
  { <<>>, <<FileA>>, <<FileAp>>, <<FileAd>>, <<FileB>>,
    <<FileA, FileB>>, <<FileB, FileA>> }

\* The history of the base branch after the merge, oldest first: the merge
\* commit of the pull request is its last entry.
HistoryLen == MaxCommits + 1
MergeSHA == SrcSHA(HistoryLen)
History == RangeOf([k \in 1..HistoryLen |-> FALSE])

\* The merge commit with the given number of parents.
MergeCommitOf(nParents, files) ==
  [sha     |-> MergeSHA,
   parents |-> [k \in 1..nParents |->
                  IF k = 1 THEN SrcSHA(HistoryLen - 1) ELSE SideSHA(k)],
   files   |-> files]

\* The commits of the pull request's own branch, oldest first.
PrSHA(k) == 50 + k
PrCommits(n) ==
  [k \in 1..n |-> [RangeOf([j \in 1..n |-> FALSE])[k] EXCEPT !.sha = PrSHA(k)]]

\* Label lists for the target resolution: as LabelLists, and two different
\* labels that name the same branch.
ResolveLabelLists ==
  LabelLists \cup
  { << <<"backport-to-", "t1">>, <<"urgent-", "backport-to-", "t1">> >>,
    << <<"backport-to-", "t2">>, <<"backport-to-", "t9">> >> }

\* The pull requests explored: every label list with one merge, and every
\* merge (parents of the merge commit, commit count, the two file lists,
\* with or without a merge commit SHA) with one label list.
PullRequests ==
  { [number |-> 42, merged |-> TRUE, labels |-> ls, commits |-> 1,
     mergeCommitSHA |-> MergeSHA, mergeCommit |-> MergeCommitOf(1, <<FileA>>),
     files |-> <<FileA>>] : ls \in ResolveLabelLists }
  \cup
  { [number |-> 42, merged |-> m, labels |-> << <<"backport-to-", "t1">> >>,
     commits |-> n, mergeCommitSHA |-> sha,
     mergeCommit |-> MergeCommitOf(np, mf), files |-> pf] :
       m \in BOOLEAN, n \in 0..MaxCommits, sha \in {NoSHA, MergeSHA},
       np \in 0..2, mf \in FileLists, pf \in FileLists }

\* A plausible slip: the patch text is not compared.
compareCommitFileNoPatch(a, b) ==
  /\ a.filename = b.filename
  /\ a.additions = b.additions
  /\ a.deletions = b.deletions
  /\ a.changes = b.changes

\* compareCommitFile(a, b): all five fields are equal.
compareCommitFile(a, b) ==
  IF a.filename # b.filename THEN FALSE
  ELSE IF a.additions # b.additions THEN FALSE
  ELSE IF a.deletions # b.deletions THEN FALSE
  ELSE IF a.changes # b.changes THEN FALSE
  ELSE IF a.patch # b.patch THEN FALSE
  ELSE TRUE

\* Client.ListFiles(pr): no request when the pull request changed no file.
ListFilesCalls(pr) == Len(pr.files) # 0

\* A plausible slip: the single-commit shortcut is missing.
MergeKindComparesSingle(pr, getOk, listOk) ==
  IF ~pr.merged \/ pr.mergeCommitSHA = NoSHA
  THEN [kind |-> MergeInvalid, err |-> FALSE]
  ELSE IF ~getOk THEN [kind |-> MergeInvalid, err |-> TRUE]
  ELSE IF IsMergeCommit(pr.mergeCommit) THEN [kind |-> MergeCommit, err |-> FALSE]
  ELSE IF pr.files = pr.mergeCommit.files THEN [kind |-> Squash, err |-> FALSE]
  ELSE [kind |-> Rebase, err |-> FALSE]

\* A plausible slip: a merge commit is told by the commit count.
MergeKindByCount(pr, getOk, listOk) ==
  [kind |-> IF pr.commits > 1 THEN MergeCommit ELSE Squash, err |-> FALSE]

\* Client.MergeKind(pr); getOk and listOk are the outcomes of GetCommit and
\* of ListFiles, where they are called.
MergeKind(pr, getOk, listOk) ==
  IF ~pr.merged THEN [kind |-> MergeInvalid, err |-> FALSE]
  ELSE IF pr.mergeCommitSHA = NoSHA THEN [kind |-> MergeInvalid, err |-> FALSE]
  ELSE IF ~getOk THEN [kind |-> MergeInvalid, err |-> TRUE]
  ELSE IF IsMergeCommit(pr.mergeCommit) THEN [kind |-> MergeCommit, err |-> FALSE]
  ELSE IF pr.commits = 1 THEN [kind |-> Squash, err |-> FALSE]
  ELSE IF ListFilesCalls(pr) /\ ~listOk THEN [kind |-> MergeInvalid, err |-> TRUE]
  ELSE IF Len(pr.files) = Len(pr.mergeCommit.files)
       THEN IF \E i \in DOMAIN pr.files :
                  ~compareCommitFile(pr.files[i], pr.mergeCommit.files[i])
            THEN [kind |-> Rebase, err |-> FALSE]
            ELSE [kind |-> Squash, err |-> FALSE]
  ELSE [kind |-> Rebase, err |-> FALSE]

\* The requests MergeKind makes on its way to its result.
MergeKindRequests(pr, getOk, listOk) ==
  IF ~pr.merged \/ pr.mergeCommitSHA = NoSHA THEN <<>>
  ELSE <<Req("GetCommit", <<>>, pr.mergeCommitSHA, pr.number, "", getOk)>> \o
       IF getOk /\ ~IsMergeCommit(pr.mergeCommit) /\ pr.commits # 1
          /\ ListFilesCalls(pr)
       THEN <<Req("ListFiles", <<>>, NoSHA, pr.number, "", listOk)>>
       ELSE <<>>


\* The commits reachable from the merge commit, oldest first: the history of
\* the base branch, or the merge commit alone when it has no parent.
HistoryOf(pr) ==
  IF Len(pr.mergeCommit.parents) = 0
  THEN <<[History[HistoryLen] EXCEPT !.parents = <<>>]>>
  ELSE [History EXCEPT ![HistoryLen].parents = pr.mergeCommit.parents]

\* Client.FindCommitRange(pr): Repositories.ListCommits with SHA = the merge
\* commit and PerPage = the commit count: the first page of the commits
\* reachable from the merge commit, newest first (a page size of 0 is the
\* Code Host's default, which covers the history explored).
ListCommits(pr) ==
  LET hist == HistoryOf(pr)
      rev  == [k \in 1..Len(hist) |-> hist[Len(hist) + 1 - k]]
      n    == IF pr.commits = 0 \/ pr.commits > Len(hist)
              THEN Len(hist) ELSE pr.commits
  IN  SubSeq(rev, 1, n)

\* Git.FindCommitRange("M~N..M"): git rev-list --reverse, the last N commits
\* of the history, oldest first.  M~N must exist.
RevListRange(pr) ==
  LET hist == HistoryOf(pr)
  IN  IF pr.commits >= Len(hist) THEN [err |-> TRUE, list |-> <<>>]
      ELSE [err  |-> FALSE,
            list |-> SubSeq(hist, Len(hist) - pr.commits + 1, Len(hist))]

\* Client.GetCommits(pr): the commits of the pull request, none when its
\* commit count is 0.
GetCommits(pr) == PrCommits(pr.commits)

\* The switch on mk in Run: the selected commits, or an error.  `ok` is the
\* outcome of the one call the branch makes.
SelectedCommits(pr, kind, ok) ==
  CASE kind = Squash ->
         IF engine = "api"
         THEN [err |-> ~ok, list |-> <<HistoryOf(pr)[Len(HistoryOf(pr))]>>]
         ELSE [err |-> FALSE, list |-> <<HistoryOf(pr)[Len(HistoryOf(pr))]>>]
    [] kind = MergeCommit ->
         [err |-> pr.commits # 0 /\ ~ok, list |-> GetCommits(pr)]
    [] kind = Rebase ->
         IF engine = "api"
         THEN [err |-> ~ok, list |-> ListCommits(pr)]
         ELSE [err |-> ~ok \/ RevListRange(pr).err, list |-> RevListRange(pr).list]

\* What the selection machine never changes.
selectFixed == <<githubCtx, env, msgs, engine, config, sourcePr, range, mergesFound, ti, ci, backport,
                 previousCommit, newCommit, newPr, refs, prs, created, refList>>

SelectInit ==
  /\ engine \in Engines
  /\ config \in [ConflictHandling : {ConflictHandlingAbort},
                 MergeCommitHandling : {MergeCommitHandlingSkip},
                 Committer : {"backbot"},
                 Email : {"backbot@example.org"},
                 LabelPattern : {LabelPatternGroup, LabelPatternNoGroup}]
  /\ mk = NoMk
  /\ msgs = <<>>
  /\ commitsPRCache = {}
  /\ picks = <<>>
  /\ githubCtx = RunContext
  /\ env = NoEnv
  /\ sourcePr \in PullRequests
  /\ range = <<>>
  /\ pc = "Resolve"
  /\ ret = "none"
  /\ targetRefs = <<>>
  /\ commits = <<>>
  /\ mergesFound = <<>>
  /\ ti = 0
  /\ ci = 0
  /\ backport = NilRef
  /\ previousCommit = NoSHA
  /\ newCommit = NoSHA
  /\ newPr = NoPr
  /\ refs = {[ref |-> FullRef(b), sha |-> TipSHA(b)] : b \in ExistingBranches}
  /\ prs = <<>>
  /\ created = <<>>
  /\ reqs = <<>>
  /\ refList = <<>>

\* targetRefs := getTargetRefs(ctx, sourcePr)
ResolveTargets ==
  /\ pc = "Resolve"
  /\ targetRefs' = getTargetRefs
  /\ pc' = "MergeKind"
  /\ UNCHANGED <<selectFixed, picks, commitsPRCache, mk, ret, commits, reqs>>

\* mk, err := b.github.MergeKind(ctx, sourcePr); an error ends Run.
CallMergeKind ==
  /\ pc = "MergeKind"
  /\ \E getOk, listOk \in BOOLEAN :
       /\ mk' = MergeKind(sourcePr, getOk, listOk)
       /\ reqs' = reqs \o MergeKindRequests(sourcePr, getOk, listOk)
       /\ IF mk'.err THEN Return("err")
          ELSE pc' = "SelectCommits" /\ ret' = ret
  /\ UNCHANGED <<selectFixed, picks, commitsPRCache, targetRefs, commits>>

\* switch mk { ... }: the commits to cherry-pick; the default branch is
\* githubactions.Fatalf, which ends the process.
SelectCommits ==
  /\ pc = "SelectCommits"
  /\ IF mk.kind = MergeInvalid
     THEN Return("fatal") /\ UNCHANGED <<commits, commitsPRCache>>
     ELSE \E ok \in BOOLEAN :
            LET r == SelectedCommits(sourcePr, mk.kind, ok)
            IN  IF r.err THEN Return("err") /\ UNCHANGED <<commits, commitsPRCache>>
                ELSE /\ commits' = r.list
                     /\ commitsPRCache' =
                          IF mk.kind = MergeCommit
                          THEN CacheAfterGetCommits(sourcePr.number, r.list)
                          ELSE commitsPRCache
                     /\ pc' = "Selected"
                     /\ ret' = ret
  /\ UNCHANGED <<selectFixed, picks, mk, targetRefs, reqs>>

SelectNext == ResolveTargets \/ CallMergeKind \/ SelectCommits

SelectSpec == SelectInit /\ [][SelectNext]_vars

(***************************************************************************)
(* Runs that find a backport branch left by an earlier run                 *)
(***************************************************************************)
\* The backport branch of pull request 42 for target t1, left on the Code
\* Host at the tip of t1 by an earlier run.
StaleRef == [ref |-> FullRef(makeBackportBranchName("42", <<"t1">>)),
             sha |-> TipSHA(<<"t1">>)]

\* As Init, with the stale backport branch among the refs.
ExistingInit ==
  /\ engine \in Engines
  /\ config \in [ConflictHandling : ConflictHandlings,
                 MergeCommitHandling : MergeCommitHandlings,
                 Committer : {"backbot"},
                 Email : {"backbot@example.org"},
                 LabelPattern : {LabelPatternGroup}]
  /\ mk = NoMk
  /\ msgs = <<>>
  /\ commitsPRCache = {}
  /\ picks = <<>>
  /\ githubCtx = RunContext
  /\ env = NoEnv
  /\ sourcePr \in [number : {42}, merged : BOOLEAN, labels : LabelLists]
  /\ range \in Ranges
  /\ pc = "Start"
  /\ ret = "none"
  /\ targetRefs = <<>>
  /\ commits = <<>>
  /\ mergesFound = <<>>
  /\ ti = 0
  /\ ci = 0
  /\ backport = NilRef
  /\ previousCommit = NoSHA
  /\ newCommit = NoSHA
  /\ newPr = NoPr
  /\ refs = {[ref |-> FullRef(b), sha |-> TipSHA(b)] : b \in ExistingBranches}
              \cup {StaleRef}
  /\ prs = <<>>
  /\ created = <<>>
  /\ reqs = <<>>
  /\ refList = <<>>

ExistingSpec == ExistingInit /\ [][Next]_vars

(***************************************************************************)
(* Loading the action inputs                                               *)
(***************************************************************************)
\* A pattern regexp.Compile rejects.
BadPattern == "("

\* The environments explored: every variable unset or set to the value
\* TestInput gives it; the patterns also to one that does not compile, the
\* conflict handling also to "draft" and to a value Validate rejects.
Envs ==
  [ INPUT_GITHUB_TOKEN          : {Unset, "token"},
    INPUT_COMMITTER             : {Unset, "committer"},
    INPUT_EMAIL                 : {Unset, "email"},
    INPUT_COMMITTER_EMAIL       : {Unset, "email"},
    INPUT_PR_TITLE              : {Unset, "title"},
    INPUT_PR_DESCRIPTION        : {Unset, "description"},
    INPUT_COPY_LABEL_PATTERN    : {Unset, "copy-label-pattern"},
    INPUT_COPY_LABELS_PATTERN   : {Unset, "copy-label-pattern", BadPattern},
    INPUT_LABEL_PATTERN         : {Unset, "label-pattern", BadPattern},
    INPUT_CONFLICT_HANDLING     : {Unset, "abort", "draft", "other"},
    INPUT_MERGE_COMMIT_HANDLING : {Unset, "abort"} ]

\* The environment TestInput sets.
TestEnv ==
  [ INPUT_GITHUB_TOKEN          |-> "token",
    INPUT_COMMITTER             |-> "committer",
    INPUT_EMAIL                 |-> "email",
    INPUT_COMMITTER_EMAIL       |-> Unset,
    INPUT_PR_TITLE              |-> "title",
    INPUT_PR_DESCRIPTION        |-> "description",
    INPUT_COPY_LABEL_PATTERN    |-> "copy-label-pattern",
    INPUT_COPY_LABELS_PATTERN   |-> Unset,
    INPUT_LABEL_PATTERN         |-> "label-pattern",
    INPUT_CONFLICT_HANDLING     |-> "abort",
    INPUT_MERGE_COMMIT_HANDLING |-> Unset ]

\* A nil *Input.
NilInput ==
  [isNil |-> TRUE, GitHubToken |-> "", Committer |-> "", Email |-> "",
   Title |-> "", Description |-> "", CopyLabelsPattern |-> "",
   copyLabelRegex |-> "", LabelPattern |-> "", labelRegex |-> "",
   ConflictHandling |-> "", MergeCommitHandling |-> ""]

\* The value a field tagged env:"NAME" default:"..." gets under the prefix
\* INPUT_: the variable when it is set, else the default.
Getenv(e, name, default) == IF e[name] # Unset THEN e[name] ELSE default

\* config.FromEnv(&input, EnvOptions{Prefix: "INPUT_"}) on the Input struct.
FromEnv(e) ==
  [isNil               |-> FALSE,
   GitHubToken         |-> Getenv(e, "INPUT_GITHUB_TOKEN", ""),
   Committer           |-> Getenv(e, "INPUT_COMMITTER", ""),
   Email               |-> Getenv(e, "INPUT_COMMITTER_EMAIL", ""),
   Title               |-> Getenv(e, "INPUT_PR_TITLE", ""),
   Description         |-> Getenv(e, "INPUT_PR_DESCRIPTION", ""),
   CopyLabelsPattern   |-> Getenv(e, "INPUT_COPY_LABELS_PATTERN", ""),
   copyLabelRegex      |-> "",
   LabelPattern        |-> Getenv(e, "INPUT_LABEL_PATTERN",
                                  "backport-to-(support\\/\\d+\\.\\d+)"),
   labelRegex          |-> "",
   ConflictHandling    |-> Getenv(e, "INPUT_CONFLICT_HANDLING", ""),
   MergeCommitHandling |-> Getenv(e, "INPUT_MERGE_COMMIT_HANDLING", "skip")]

\* Input.Validate: the first complaint, "" when there is none.
ValidateError(in) ==
  IF in.GitHubToken = "" THEN "github_token is required"
  ELSE IF in.Committer = "" THEN "committer is required"
  ELSE IF in.Email = "" THEN "committer email is required"
  ELSE IF in.Title = "" THEN "pr_title is required"
  ELSE IF in.Description = "" THEN "pr_description is required"
  ELSE IF in.CopyLabelsPattern = BadPattern
       THEN "failed to compile copy_labels_pattern regex"
  ELSE IF in.LabelPattern = "" THEN "label_pattern is required"
  ELSE IF in.LabelPattern = BadPattern
       THEN "failed to compile label_pattern regex"
  ELSE IF in.ConflictHandling # "abort" /\ in.ConflictHandling # "draft"
       THEN "expected input 'conflict_handling' to be either 'abort' or 'draft'"
  ELSE IF in.MergeCommitHandling = "" THEN "merge_commit_handling is required"
  ELSE ""

\* Input.Validate: the two compiled patterns of an input it accepts.
Validated(in) ==
  [in EXCEPT !.copyLabelRegex = in.CopyLabelsPattern,
             !.labelRegex = in.LabelPattern]

\* The environment after FromEnv: GITHUB_TOKEN is tagged `unset`.
AfterLoad(e) == [e EXCEPT !["INPUT_GITHUB_TOKEN"] = Unset]

InputInit ==
  /\ engine = "git"
  /\ config = NilInput
  /\ mk = NoMk
  /\ msgs = <<>>
  /\ commitsPRCache = {}
  /\ picks = <<>>
  /\ githubCtx = RunContext
  /\ env \in Envs
  /\ sourcePr = [number |-> 42, merged |-> TRUE, labels |-> <<>>]
  /\ range = <<>>
  /\ pc = "Load"
  /\ ret = "none"
  /\ targetRefs = <<>>
  /\ commits = <<>>
  /\ mergesFound = <<>>
  /\ ti = 0
  /\ ci = 0
  /\ backport = NilRef
  /\ previousCommit = NoSHA
  /\ newCommit = NoSHA
  /\ newPr = NoPr
  /\ refs = {}
  /\ prs = <<>>
  /\ created = <<>>
  /\ reqs = <<>>
  /\ refList = <<>>

\* LoadInputsFromEnv(): FromEnv, then Validate; nil and the error, or the
\* input and nil.
LoadInputsFromEnv ==
  /\ pc = "Load"
  /\ LET input == FromEnv(env)
     IN  IF ValidateError(input) # ""
         THEN config' = NilInput /\ ret' = "err"
         ELSE config' = Validated(input) /\ ret' = "nil"
  /\ env' = AfterLoad(env)
  /\ pc' = "Done"
  /\ UNCHANGED <<githubCtx, picks, commitsPRCache, engine, mk, msgs, sourcePr, range, targetRefs, commits,
                 mergesFound, ti, ci, backport, previousCommit, newCommit,
                 newPr, refs, prs, created, reqs, refList>>

InputNext == LoadInputsFromEnv

InputSpec == InputInit /\ [][InputNext]_vars

(***************************************************************************)
(* The entry point                                                         *)
(***************************************************************************)
\* The event names and actions a workflow may start the program with.
EventNames == {"pull_request", "pull_request_target", "push", "issues"}
EventActions == {"closed", "opened"}

\* The GitHub contexts looked at.
Contexts ==
  [EventName : EventNames, Action : EventActions, Event : Payloads,
   Repository : {<<"yhabteab", "/", "backbot">>}]

\* The payload names a pull request by an integral number.
CarriesNumber(ctx) ==
  /\ ~ctx.Event.isNil
  /\ ctx.Event.hasPr
  /\ ctx.Event.prIsMap
  /\ ctx.Event.hasNumber
  /\ ctx.Event.number.tenths = 0

\* The program is started by a workflow event; the inputs are loaded.
EntryInit ==
  /\ engine \in Engines
  /\ config = [ConflictHandling |-> ConflictHandlingAbort,
               MergeCommitHandling |-> MergeCommitHandlingSkip,
               Committer |-> "backbot",
               Email |-> "backbot@example.org",
               LabelPattern |-> LabelPatternGroup]
  /\ mk = NoMk
  /\ msgs = <<>>
  /\ commitsPRCache = {}
  /\ picks = <<>>
  /\ githubCtx \in Contexts
  /\ env = NoEnv
  /\ sourcePr \in [number : {IF CarriesNumber(githubCtx)
                              THEN githubCtx.Event.number.int ELSE 42},
                    merged : BOOLEAN,
                    labels : {<<>>}]
  /\ range = <<>>
  /\ pc = "Main"
  /\ ret = "none"
  /\ targetRefs = <<>>
  /\ commits = <<>>
  /\ mergesFound = <<>>
  /\ ti = 0
  /\ ci = 0
  /\ backport = NilRef
  /\ previousCommit = NoSHA
  /\ newCommit = NoSHA
  /\ newPr = NoPr
  /\ refs = {[ref |-> FullRef(b), sha |-> TipSHA(b)] : b \in ExistingBranches}
  /\ prs = <<>>
  /\ created = <<>>
  /\ reqs = <<>>
  /\ refList = <<>>

\* main(), from githubactions.Context() on: Fatalf for an event that is
\* neither pull_request nor pull_request_target; the entry point of the api
\* engine also asks for the action "closed", that of the git engine
\* configures git, which may fail; then backport.Run.
Main ==
  /\ pc = "Main"
  /\ IF githubCtx.EventName \notin {"pull_request", "pull_request_target"}
     THEN Return("fatal")
     ELSE IF engine = "api"
     THEN IF githubCtx.Action # "closed" THEN Return("fatal")
          ELSE pc' = "Start" /\ ret' = ret
     ELSE \E ok \in BOOLEAN :
            IF ok THEN pc' = "Start" /\ ret' = ret ELSE Return("fatal")
  /\ UNCHANGED <<githubCtx, picks, commitsPRCache, env, msgs, mk, engine, config,
                 sourcePr, range, targetRefs, commits, mergesFound, ti, ci,
                 backport, previousCommit, newCommit, newPr, refs, prs,
                 created, reqs, refList>>

\* The entry point and the first step of Run.
EntryNext == Main \/ RunStart

EntrySpec == EntryInit /\ [][EntryNext]_vars

(***************************************************************************)
(* Vocabulary of the properties                                            *)
(***************************************************************************)
\* The requests that open a target's attempt, in the order issued.
Attempted == SelectSeq(reqs, LAMBDA r : r.op \in {"CreateRef", "Checkout"})

\* The full name of the backport ref of the t-th target.
BackportRefOf(t) ==
  IF engine = "api"
  THEN CreateRefResult(makeBackportBranchNameOfRef(ToString(sourcePr.number),
                                                   targetRefs[t]), NoSHA).ref
  ELSE FullRef(makeBackportBranchName(ToString(sourcePr.number), targetRefs[t]))

\* The attempt for the t-th target has returned to Run.
Finished(t) ==
  \/ t < ti
  \/ t = ti /\ pc \in {"TargetDone", "Dispatch"}

\* Run went past the loop and posted (or tried to post) its final comment.
LoopLeft ==
  /\ pc = "Done"
  /\ Len(reqs) > 0
  /\ reqs[Len(reqs)].op = "CreateComment"
  /\ reqs[Len(reqs)].what \in {"summary", "nothing-created"}

\* Some request of the t-th attempt with the given operation and outcome.
Issued(t, op, ok) ==
  \E k \in DOMAIN reqs : reqs[k].t = t /\ reqs[k].op = op /\ reqs[k].ok = ok

\* The replay of a commit conflicted in the t-th attempt.
ConflictIn(t) ==
  \E k \in DOMAIN reqs :
    /\ reqs[k].t = t
    /\ reqs[k].op \in {"CreateCommit", "CherryPick"}
    /\ reqs[k].what = "conflict"

\* A delete request for a ref that existed failed in the t-th attempt.
DeleteFailedIn(t) ==
  \E k \in DOMAIN reqs :
    /\ reqs[k].t = t
    /\ reqs[k].op = "DeleteRef"
    /\ ~reqs[k].ok
    /\ reqs[k].sha # NoSHA

\* The pull requests created for the t-th target.
PrsOf(t) == {k \in DOMAIN prs : prs[k].t = t}

(***************************************************************************)
(* C1                                                                      *)
(***************************************************************************)
\* C1: every entry of the target list is attempted, in list order: the k-th
\* attempt opened is the one for targetRefs[k], and when Run leaves the loop
\* every target has had its attempt, whatever failed in the earlier ones.
C1_EveryTargetAttempted ==
  /\ \A k \in DOMAIN Attempted :
       /\ Attempted[k].t = k
       /\ k <= Len(targetRefs)
       /\ FullRef(Attempted[k].ref) = BackportRefOf(k)
  /\ LoopLeft => Len(Attempted) = Len(targetRefs)

\* C1 witness: two targets, the first attempt failed (a request of it failed
\* and it produced no pull request), and the second was still attempted.
C1_Witness ==
  /\ LoopLeft
  /\ Len(targetRefs) = 2
  /\ Len(Attempted) = 2
  /\ PrsOf(1) = {}
  /\ \E op \in {"CreateRef", "Checkout", "CreateCommit", "CherryPick",
                "UpdateRef", "Push", "CreatePR"} : Issued(1, op, FALSE)

(***************************************************************************)
(* C2                                                                      *)
(***************************************************************************)
\* C2 (as claimed): when cherryPickCommits has returned for a target, the
\* backport branch CreateRef made for it either exists with a pull request
\* whose head is that branch, or has been deleted, provided no delete request
\* for an existing ref failed.
C2_BranchHasPrOrIsDeleted ==
  \A t \in 1..Len(targetRefs) :
    (/\ engine = "api"
     /\ Finished(t)
     /\ Issued(t, "CreateRef", TRUE)
     /\ ~DeleteFailedIn(t))
    => \/ ~RefExists(BackportRefOf(t))
       \/ \E k \in PrsOf(t) : FullRef(prs[k].head) = BackportRefOf(t)

(***************************************************************************)
(* C3                                                                      *)
(***************************************************************************)
\* C3 (as claimed): when cherryPick has returned for a target and the
\* backport branch was pushed, a pull request for that branch exists.
C3_PushedBranchHasPr ==
  \A t \in 1..Len(targetRefs) :
    (/\ engine = "git"
     /\ Finished(t)
     /\ Issued(t, "Push", TRUE))
    => \E k \in PrsOf(t) : FullRef(prs[k].head) = BackportRefOf(t)

ShasOf(cs) == [k \in DOMAIN cs |-> cs[k].sha]

\* A commit of the list has more than one parent.
HasMerge(cs) == \E k \in DOMAIN cs : Len(cs[k].parents) > 1

\* The position in the commit list of the commit whose replay conflicted in
\* the t-th attempt (0: none did).
ConflictIndex(t) ==
  LET hit == {i \in DOMAIN commits :
                \E k \in DOMAIN reqs :
                  /\ reqs[k].t = t
                  /\ reqs[k].op \in {"CreateCommit", "CherryPick"}
                  /\ reqs[k].what = "conflict"
                  /\ reqs[k].sha = commits[i].sha}
  IN  IF hit = {} THEN 0 ELSE CHOOSE i \in hit : TRUE

\* The commits created in the t-th attempt by replaying the i-th list entry.
ReplaysOf(t, i) ==
  {j \in DOMAIN created :
     /\ created[j].t = t
     /\ created[j].kind = "replay"
     /\ created[j].src = commits[i].sha}

\* The created commit with the given SHA (there is one).
CommitAt(sha) == created[CHOOSE j \in DOMAIN created : created[j].sha = sha]

\* The source commits whose replays are reachable from `sha`.
RECURSIVE OnBranch(_)
OnBranch(sha) ==
  IF \A j \in DOMAIN created : created[j].sha # sha THEN {}
  ELSE LET c == CommitAt(sha)
       IN  {c.src} \cup UNION {OnBranch(c.parents[m]) : m \in DOMAIN c.parents}

\* Run is past the merge-commit handling, which did not fail.
PreFilter == {"Start", "NotMerged", "GetTargetRefs", "Select", "Filter"}

Filtered ==
  /\ pc \notin PreFilter
  /\ pc = "Done" =>
       /\ Len(reqs) > 0
       /\ reqs[Len(reqs)].op = "CreateComment"
       /\ reqs[Len(reqs)].what \in {"merge-abort", "no-commits", "summary",
                                    "nothing-created"}

C6_EmptyCommitHasTipTree ==
  \A k \in DOMAIN prs :
    LET p   == prs[k]
        tip == TipSHA(trimRefPrefix(targetRefs[p.t]))
    IN  (engine = "api" /\ p.draft /\ ConflictIndex(p.t) = 1)
        => /\ \E j \in DOMAIN created : created[j].sha = p.headSHA
           /\ CommitAt(p.headSHA).kind = "empty"
           /\ CommitAt(p.headSHA).parents = <<tip>>
           /\ CommitAt(p.headSHA).tree = TreeOf(tip)

(***************************************************************************)
(* C7                                                                      *)
(***************************************************************************)
\* Every list entry was replayed in the t-th attempt, none conflicted.
AllReplayed(t) ==
  /\ ~ConflictIn(t)
  /\ \A i \in DOMAIN commits : ReplaysOf(t, i) # {}

\* C7: api engine: when every list entry replayed without conflict and the
\* ref update and the pull request creation succeeded, the backport ref
\* points at the commit created for the last entry and the target has exactly
\* one pull request: not a draft, head the backport branch, base the target.
C7_SuccessfulAttempt ==
  \A t \in 1..Len(targetRefs) :
    (/\ engine = "api"
     /\ AllReplayed(t)
     /\ Issued(t, "UpdateRef", TRUE)
     /\ Issued(t, "CreatePR", TRUE))
    => /\ \E j \in ReplaysOf(t, Len(commits)) :
            RefSHA(BackportRefOf(t)) = created[j].sha
       /\ Cardinality(PrsOf(t)) = 1
       /\ \A k \in PrsOf(t) :
            /\ ~prs[k].draft
            /\ FullRef(prs[k].head) = BackportRefOf(t)
            /\ FullRef(prs[k].base) = FullRef(targetRefs[t])
            /\ prs[k].head # prs[k].base

\* C7 witness: an api attempt that replayed two commits, updated the ref and
\* created its pull request.
C7_Witness ==
  /\ engine = "api"
  /\ Len(commits) = 2
  /\ ti \in DOMAIN targetRefs
  /\ AllReplayed(ti)
  /\ Issued(ti, "UpdateRef", TRUE)
  /\ Issued(ti, "CreatePR", TRUE)
  /\ pc = "TargetDone"

(***************************************************************************)
(* C8                                                                      *)
(***************************************************************************)
\* C8 (as claimed): with merge-commit handling "abort" and a merge commit in
\* the selected range, Run asks for no ref to be created, updated or deleted,
\* pushes nothing, creates no pull request, and when it has terminated it has
\* asked for exactly one comment, on the source pull request.
C8_MergeAbortTouchesNothing ==
  (/\ config.MergeCommitHandling = MergeCommitHandlingAbort
   /\ HasMerge(range)
   /\ Filtered)
  => /\ \A k \in DOMAIN reqs :
          reqs[k].op \notin {"CreateRef", "UpdateRef", "DeleteRef", "Push"}
     /\ prs = <<>>
     /\ pc = "Done" =>
          /\ Len(comments) = 1
          /\ comments[1].num = sourcePr.number

(***************************************************************************)
(* C9                                                                      *)
(***************************************************************************)
\* C9: with merge-commit handling "skip", the list replayed onto the targets
\* has no commit with more than one parent and is the selected range without
\* its merge commits, in the original order; every replay request names a
\* commit of that list.
C9_SkipDropsExactlyTheMerges ==
  (config.MergeCommitHandling = MergeCommitHandlingSkip /\ Filtered)
  => /\ ShasOf(commits)
          = ShasOf(SelectSeq(range, LAMBDA c : Len(c.parents) <= 1))
     /\ \A i \in DOMAIN commits : Len(commits[i].parents) <= 1
     /\ \A i, j \in DOMAIN commits : commits[i].sha = commits[j].sha => i = j
     /\ \A k \in DOMAIN reqs :
          (reqs[k].op \in {"CreateCommit", "CherryPick"} /\ reqs[k].sha # NoSHA)
          => \E i \in DOMAIN commits : commits[i].sha = reqs[k].sha

\* C9 witness: under "skip" a range with a merge commit and another commit
\* has been filtered, and the replay of what is left has begun.
C9_Witness ==
  /\ config.MergeCommitHandling = MergeCommitHandlingSkip
  /\ HasMerge(range)
  /\ Len(commits) = 1
  /\ Len(range) = 2
  /\ \E k \in DOMAIN reqs : reqs[k].op \in {"CreateCommit", "CherryPick"}

(***************************************************************************)
(* C10                                                                     *)
(***************************************************************************)
\* C10 (as claimed): with merge-commit handling neither "skip" nor "abort",
\* the merge commits of the selected range stay in the list that is replayed.
C10_OtherValuesKeepMerges ==
  (/\ config.MergeCommitHandling \notin {MergeCommitHandlingSkip,
                                         MergeCommitHandlingAbort}
   /\ Filtered)
  => ShasOf(commits) = ShasOf(range)

(***************************************************************************)
(* Strategy detection: C11 .. C14 (SelectSpec)                             *)
(***************************************************************************)
\* MergeKind has returned a strategy for a merged pull request whose merge
\* commit could be fetched.
Classified ==
  /\ mk # NoMk
  /\ ~mk.err
  /\ sourcePr.merged
  /\ sourcePr.mergeCommitSHA # NoSHA

\* C11: for a merged pull request whose merge commit has more than one
\* parent, MergeKind returns MergeCommit, whatever the commit count and the
\* two changed-file lists are.
C11_MoreThanOneParentIsMergeCommit ==
  (Classified /\ Len(sourcePr.mergeCommit.parents) > 1)
  => mk.kind = MergeCommit

\* C11 witness: MergeCommit was returned for a single-commit pull request
\* whose file list differs from the merge commit's.
C11_Witness ==
  /\ Classified
  /\ Len(sourcePr.mergeCommit.parents) > 1
  /\ sourcePr.commits = 1
  /\ sourcePr.files # sourcePr.mergeCommit.files
  /\ mk.kind = MergeCommit

\* C12: for a merged pull request with commit count 1 whose merge commit has
\* at most one parent, MergeKind returns Squash whatever the two file lists
\* are, and never asks for the changed files of the pull request.
C12_SingleCommitIsSquash ==
  (/\ Classified
   /\ sourcePr.commits = 1
   /\ Len(sourcePr.mergeCommit.parents) <= 1)
  => /\ mk.kind = Squash
     /\ \A k \in DOMAIN reqs : reqs[k].op # "ListFiles"

\* C12 witness: Squash was returned for a single-commit pull request whose
\* file list differs from the merge commit's.
C12_Witness ==
  /\ Classified
  /\ sourcePr.commits = 1
  /\ Len(sourcePr.mergeCommit.parents) = 1
  /\ sourcePr.files # sourcePr.mergeCommit.files
  /\ Len(sourcePr.files) = Len(sourcePr.mergeCommit.files)
  /\ mk.kind = Squash

\* C13: for a merged pull request with more than one commit whose merge
\* commit has at most one parent, MergeKind returns Squash exactly when the
\* two file lists are equal entry by entry, and Rebase otherwise.
C13_SquashIffSameFiles ==
  (/\ Classified
   /\ sourcePr.commits > 1
   /\ Len(sourcePr.mergeCommit.parents) <= 1)
  => IF sourcePr.files = sourcePr.mergeCommit.files
     THEN mk.kind = Squash
     ELSE mk.kind = Rebase

\* C13 witness: Rebase was returned for two lists of one file that differ in
\* the patch text only, and Squash is returned for equal lists elsewhere.
C13_Witness ==
  /\ Classified
  /\ sourcePr.commits > 1
  /\ Len(sourcePr.mergeCommit.parents) = 1
  /\ sourcePr.files = <<FileA>>
  /\ sourcePr.mergeCommit.files = <<FileAp>>
  /\ mk.kind = Rebase

\* C14 (as claimed): when the merge commit of a merged pull request has no
\* parent, MergeKind returns an error or MergeInvalid.
C14_NoParentFails ==
  (/\ mk # NoMk
   /\ sourcePr.merged
   /\ sourcePr.mergeCommitSHA # NoSHA
   /\ Len(sourcePr.mergeCommit.parents) = 0)
  => (mk.err \/ mk.kind = MergeInvalid)


(***************************************************************************)
(* Commit selection: C15 (SelectSpec)                                      *)
(***************************************************************************)
\* C15 (as claimed): for a pull request classified as Rebase with N >= 1
\* commits, the selected list has exactly N entries, its last entry is the
\* merge commit, and every entry is the child of the entry before it
\* (oldest first).
C15_RebaseSelectsLastN ==
  (pc = "Selected" /\ mk.kind = Rebase /\ sourcePr.commits >= 1)
  => /\ Len(commits) = sourcePr.commits
     /\ commits[Len(commits)].sha = sourcePr.mergeCommitSHA
     /\ \A i \in 1..(Len(commits) - 1) :
          commits[i + 1].parents[1] = commits[i].sha

(***************************************************************************)
(* Target resolution: C17, C18 (SelectSpec)                                *)
(***************************************************************************)
\* getTargetRefs has returned.
Resolved == pc # "Resolve"

\* C17 (as claimed): getTargetRefs never returns the same branch twice.
C17_NoDuplicateTarget ==
  Resolved
  => \A i, j \in DOMAIN targetRefs : targetRefs[i] = targetRefs[j] => i = j

\* The label matches the label pattern and the pattern has a capturing group.
MatchesWithGroup(label) ==
  /\ config.LabelPattern = LabelPatternGroup
  /\ \E p \in 1..(Len(label) - 1) : label[p] = "backport-to-"

\* The text the capturing group matched in the label.
Captured(label) ==
  <<label[(CHOOSE p \in 1..(Len(label) - 1) : label[p] = "backport-to-") + 1]>>

\* C18: getTargetRefs returns, in label order, exactly the captured texts of
\* the labels that match with a capturing group and whose branch exists;
\* every other label is skipped and the run goes on.
C18_TargetsAreResolvableCaptures ==
  LET kept == SelectSeq(sourcePr.labels,
                        LAMBDA l : /\ MatchesWithGroup(l)
                                   /\ Captured(l) \in ExistingBranches)
  IN  /\ Resolved
         => [k \in DOMAIN targetRefs |-> trimRefPrefix(targetRefs[k])]
              = [k \in DOMAIN kept |-> Captured(kept[k])]
      /\ pc = "MergeKind" => ret = "none"

\* C18 witness: of a label for a branch that does not exist followed by a
\* label for one that does, only the second was returned, and the run goes on.
C18_Witness ==
  /\ pc = "MergeKind"
  /\ config.LabelPattern = LabelPatternGroup
  /\ sourcePr.labels = << <<"backport-to-", "t9">>, <<"backport-to-", "t1">> >>
  /\ Len(targetRefs) = 1
  /\ trimRefPrefix(targetRefs[1]) = <<"t1">>

(***************************************************************************)
(* C16                                                                     *)
(***************************************************************************)
\* A request that creates or moves a branch, or creates a pull request.
Builds(r) ==
  r.op \in {"CreateRef", "UpdateRef", "Checkout", "Push", "CreatePR"}

\* C16 (as claimed): when the selected list is empty, or the merge-commit
\* handling empties it without aborting, Run goes on to post the 'no commits'
\* comment: nothing was built or commented before, the step posts that one
\* comment on the source pull request and nothing else, and Run returns nil
\* unless posting the comment failed.
C16_EmptyListStep ==
  /\ (pc = "Filter" /\ Len(commits) = 0) => pc' = "NoCommits"
  /\ (/\ pc = "Filter"
      /\ Len(commits') = 0
      /\ pc' \notin {"MergeAbort", "Filter"}
      /\ ret' # "err") => pc' = "NoCommits"
  /\ pc = "NoCommits"
     => /\ prs = <<>> /\ prs' = <<>>
        /\ refs' = refs
        /\ \A k \in DOMAIN reqs :
             ~Builds(reqs[k]) /\ reqs[k].op # "CreateComment"
        /\ Len(reqs') = Len(reqs) + 1
        /\ reqs'[Len(reqs')].op = "CreateComment"
        /\ reqs'[Len(reqs')].what = "no-commits"
        /\ reqs'[Len(reqs')].num = sourcePr.number
        /\ pc' = "Done"
        /\ ret' = IF reqs'[Len(reqs')].ok THEN "nil" ELSE "err"

C16_EmptyListEndsNormally == [][C16_EmptyListStep]_vars

(***************************************************************************)
(* C19                                                                     *)
(***************************************************************************)
\* C19 (as claimed): no label request names the source pull request, and
\* once the attempt that created a backport pull request is over, a label
\* request naming that pull request was made if there is a label to copy.
C19_LabelsGoToTheNewPr ==
  /\ \A k \in DOMAIN reqs :
       reqs[k].op = "LabelPR" => reqs[k].num # sourcePr.number
  /\ \A t \in DOMAIN targetRefs :
       (t < ti /\ Len(labelsToAdd) > 0)
       => \A n \in PrsOf(t) :
            \E k \in DOMAIN reqs :
              /\ reqs[k].op = "LabelPR"
              /\ reqs[k].num = sourcePr.number + n

(***************************************************************************)
(* C20                                                                     *)
(***************************************************************************)
\* C20 (as claimed): when Run has left the loop and no attempt produced a
\* pull request, the final comment is the 'nothing created' comment, it is
\* the only comment of its kind, and no success summary was requested.
C20_NothingCreatedComment ==
  (LoopLeft /\ prs = <<>>)
  => /\ reqs[Len(reqs)].what = "nothing-created"
     /\ \A k \in DOMAIN reqs :
          /\ reqs[k].what # "summary"
          /\ reqs[k].what = "nothing-created" => k = Len(reqs)

(***************************************************************************)
(* The final comment: C21, C22                                             *)
(***************************************************************************)
\* C21 (as claimed): when Run has posted its final comment, every draft
\* pull request created in the run is listed in it with its number.
C21_DraftIsListed ==
  LoopLeft
  => \A n \in DOMAIN prs :
       prs[n].draft
       => /\ reqs[Len(reqs)].what = "summary"
          /\ \E k \in DOMAIN refList : refList[k].pr = prs[n].number

\* C22 (as claimed): the final comment lists every pull request created in
\* the run, and each entry of the list pairs the number of a created pull
\* request with the branch name of the target it was created for.
C22_SummaryListsTargetAndNumber ==
  LoopLeft
  => /\ \A n \in DOMAIN prs :
          \E k \in DOMAIN refList : refList[k].pr = prs[n].number
     /\ \A k \in DOMAIN refList :
          \E n \in DOMAIN prs :
            /\ prs[n].number = refList[k].pr
            /\ refList[k].ref = trimRefPrefix(targetRefs[prs[n].t])

(***************************************************************************)
(* C23                                                                     *)
(***************************************************************************)
\* A comment of an attempt: the conflict comment or the recovery message.
PerTarget(r) ==
  r.op = "CreateComment" /\ r.what \in {"conflict-abort", "draft-steps"}

\* C23: when Run has posted its final comment, it returns an error exactly
\* when that request failed, whatever happened to the comments of the
\* attempts; and Run never returns right after a comment of an attempt.
C23_OnlyFinalCommentFailureIsReturned ==
  /\ LoopLeft => (ret = "err" <=> ~reqs[Len(reqs)].ok)
  /\ (pc = "Done" /\ Len(reqs) > 0) => ~PerTarget(reqs[Len(reqs)])

\* C23 witness: a comment of an attempt failed, the run went on, posted its
\* final comment and returned nil.
C23_Witness ==
  /\ LoopLeft
  /\ ret = "nil"
  /\ \E k \in DOMAIN reqs : PerTarget(reqs[k]) /\ ~reqs[k].ok

\* C23 witness of the other half: the final comment failed and Run returned
\* the error, every comment of an attempt having succeeded.
C23_FinalFailed ==
  /\ LoopLeft
  /\ ret = "err"
  /\ ~reqs[Len(reqs)].ok
  /\ \E k \in DOMAIN reqs : PerTarget(reqs[k]) /\ reqs[k].ok

(***************************************************************************)
(* C24 (ExistingSpec)                                                      *)
(***************************************************************************)
\* C24 (as claimed): the backport branch that existed before the run still
\* points at the commit it pointed at, and once the attempt for its target
\* is over, the only request of that attempt is the failed creation of the
\* branch and no pull request was created for the target.
C24_ExistingBranchIsLeftAlone ==
  /\ StaleRef \in refs
  /\ \A t \in DOMAIN targetRefs :
       (t < ti /\ FullRef(BackportRefOf(t)) = StaleRef.ref)
       => /\ PrsOf(t) = {}
          /\ \A k \in DOMAIN reqs :
               reqs[k].t = t
               => reqs[k].op \in {"CreateRef", "Checkout"} /\ ~reqs[k].ok

(***************************************************************************)
(* C25                                                                     *)
(***************************************************************************)
\* A comment was requested that tells the outcome of the t-th target: a
\* comment of its attempt, the summary when it lists a pull request of the
\* target, or the 'nothing created' comment.
OutcomeTold(t) ==
  \/ \E k \in DOMAIN reqs : reqs[k].op = "CreateComment" /\ reqs[k].t = t
  \/ /\ reqs[Len(reqs)].what = "summary"
     /\ \E n \in PrsOf(t) : \E k \in DOMAIN refList : refList[k].pr = prs[n].number
  \/ reqs[Len(reqs)].what = "nothing-created"

\* C25 (as claimed): when Run has posted its final comment, the outcome of
\* every target was told in a comment.
C25_EveryOutcomeIsTold ==
  LoopLeft => \A t \in DOMAIN targetRefs : OutcomeTold(t)

(***************************************************************************)
(* C26                                                                     *)
(***************************************************************************)
\* The replay of a commit failed in the t-th attempt, and not by a conflict.
ErrorIn(t) ==
  \E k \in DOMAIN reqs :
    reqs[k].t = t /\ reqs[k].op = "CreateCommit" /\ reqs[k].what = "error"

\* The request that failed so.
ErrorIndex(t) ==
  CHOOSE k \in DOMAIN reqs :
    reqs[k].t = t /\ reqs[k].op = "CreateCommit" /\ reqs[k].what = "error"

\* After the failed replay the attempt only asks to delete its branch.
EndsAtOnce(t) ==
  \A k \in DOMAIN reqs :
    (k > ErrorIndex(t) /\ reqs[k].t = t) => reqs[k].op = "DeleteRef"

DraftIndex(t) ==
  LET hit == {i \in DOMAIN commits :
                \E k \in DOMAIN reqs :
                  /\ reqs[k].t = t
                  /\ reqs[k].op \in {"CreateCommit", "CherryPick"}
                  /\ reqs[k].what \in {"conflict", "commit1"}
                  /\ reqs[k].sha = commits[i].sha}
  IN  IF hit = {} THEN 0 ELSE CHOOSE i \in hit : TRUE

\* The recovery messages sent in the t-th attempt, in order.
MsgsOf(t) == SelectSeq(msgs, LAMBDA m : m.t = t)

\* The cherry-pick lines of a list of manual steps.
PickSteps(steps) == SelectSeq(steps, LAMBDA st : st.cmd = "git cherry-pick -x")

\* The t-th attempt is over and made a draft pull request.
DraftMade(t) ==
  /\ config.ConflictHandling = ConflictHandlingDraft
  /\ Finished(t)
  /\ \E n \in PrsOf(t) : prs[n].draft

\* C27: under "draft", an attempt that made a draft pull request after a
\* conflict at index i sent the same message twice, first to the source pull
\* request and then to the draft pull request, and the one cherry-pick line
\* of its steps lists the SHAs of commits[i:], in order.
C27_SameMessageListsTheRest ==
  \A t \in 1..Len(targetRefs) :
    DraftMade(t)
    => LET m == MsgsOf(t)
           i == DraftIndex(t)
       IN  /\ Len(m) = 2
           /\ m[1].num = sourcePr.number
           /\ \E n \in PrsOf(t) : prs[n].draft /\ m[2].num = prs[n].number
           /\ m[1].body = m[2].body
           /\ m[1].body.commit = commits[i].sha
           /\ Len(PickSteps(m[1].body.steps)) = 1
           /\ PickSteps(m[1].body.steps)[1].shas
                = [k \in 1..(Len(commits) - i + 1) |-> commits[i + k - 1].sha]

\* C27 witness: the second of two commits conflicted, the draft pull request
\* was made and both messages were sent.
C27_Witness ==
  /\ pc = "TargetDone"
  /\ DraftMade(ti)
  /\ DraftIndex(ti) = 2
  /\ Len(commits) = 2
  /\ Len(MsgsOf(ti)) = 2

\* What a line of the manual steps does.
KindOf(cmd) ==
  CASE cmd = "git fetch origin" -> "fetch"
    [] cmd = "git worktree add --checkout" -> "add-worktree"
    [] cmd = "git reset --hard HEAD^" -> "drop-base"
    [] cmd = "git cherry-pick -x" -> "cherry-pick"
    [] cmd \in {"git push --force", "git push --force-with-lease"} -> "force-push"
    [] cmd = "git worktree remove" -> "remove-worktree"
    [] OTHER -> "cd"

\* The kinds of the lines of a list of manual steps, the directory changes
\* left out.
KindsOf(steps) ==
  LET lines == SelectSeq(steps, LAMBDA st : KindOf(st.cmd) # "cd")
  IN  [k \in DOMAIN lines |-> KindOf(lines[k].cmd)]

\* An empty base commit (api) or a draft commit (git) was created in the
\* t-th attempt.
BaseCommitIn(t) ==
  \E j \in DOMAIN created :
    created[j].t = t /\ created[j].kind \in {"empty", "draft"}

\* C28 (as claimed): the steps of every recovery message are: fetch, add the
\* worktree, drop the base commit exactly when one was created, cherry-pick,
\* force-push, remove the worktree.
C28_StepsAlwaysTheSame ==
  \A k \in DOMAIN msgs :
    KindsOf(msgs[k].body.steps)
      = <<"fetch", "add-worktree">>
        \o (IF BaseCommitIn(msgs[k].t) THEN <<"drop-base">> ELSE <<>>)
        \o <<"cherry-pick", "force-push", "remove-worktree">>

(***************************************************************************)
(* C29                                                                     *)
(***************************************************************************)
\* The run was aborted by policy: a replay conflicted under conflict
\* handling "abort", or the merge-commit handling ended the run.
AbortedByPolicy ==
  \/ /\ config.ConflictHandling = ConflictHandlingAbort
     /\ \E t \in DOMAIN targetRefs : ConflictIn(t)
  \/ \E k \in DOMAIN reqs : reqs[k].what = "merge-abort"

\* C29 (as claimed): a run aborted by policy returns an error.
C29_PolicyAbortFailsTheRun ==
  (pc = "Done" /\ AbortedByPolicy) => ret = "err"

(***************************************************************************)
(* C30 (InputSpec)                                                         *)
(***************************************************************************)
\* C30 (as claimed): LoadInputsFromEnv, run in the environment TestInput
\* sets, succeeds, returns every value in its field, and the merge-commit
\* handling is "skip".
C30_LoadStep ==
  (pc = "Load" /\ env = TestEnv)
  => /\ ret' = "nil"
     /\ config'.GitHubToken = "token"
     /\ config'.Committer = "committer"
     /\ config'.Email = "email"
     /\ config'.Title = "title"
     /\ config'.Description = "description"
     /\ config'.CopyLabelsPattern = "copy-label-pattern"
     /\ config'.LabelPattern = "label-pattern"
     /\ config'.ConflictHandling = "abort"
     /\ config'.MergeCommitHandling = "skip"

C30_TestInputLoads == [][C30_LoadStep]_vars

(***************************************************************************)
(* C31: the commit cache                                                   *)
(***************************************************************************)
\* A step leaves the cache as written: every entry it holds, the commit list
\* and the commit records of it, is there unchanged after the step.
C31_CacheStep == \A e \in commitsPRCache : e \in commitsPRCache'

\* C31: the commit cache keyed by pull request number is written at most
\* once per pull request, and once written neither the cached list nor a
\* commit record it holds is modified by a later step of the run, the
\* committer rewriting and the parent rewriting of the replay included.
C31_CacheIsWrittenOnce == [][C31_CacheStep]_vars

(***************************************************************************)
(* C32: committer and author of the replayed commits                       *)
(***************************************************************************)
\* The commit of the selected range with the given SHA, as it was fetched.
Original(sha) == range[CHOOSE k \in DOMAIN range : range[k].sha = sha]

\* The committer the run is configured with.
Configured == [name |-> config.Committer, email |-> config.Email]

\* The commit at index k of the list has been handed to CreateCommit.
Submitted(k) ==
  \E i \in DOMAIN reqs :
    /\ reqs[i].op = "CreateCommit"
    /\ reqs[i].what # "empty"
    /\ reqs[i].sha = commits[k].sha

\* C32: every commit handed to CreateCommit during replay has the configured
\* committer name and email and the author of the commit it replays; the
\* filtering step changes no other field of a commit it keeps.
C32_CommitterRewrittenAuthorKept ==
  /\ (engine = "api" /\ pc \notin PreFilter) =>
       \A k \in DOMAIN commits :
         LET o == Original(commits[k].sha)
         IN  /\ commits[k].committer = Configured
             /\ commits[k].author = o.author
             /\ commits[k].tree = o.tree
             /\ ~Submitted(k) => commits[k] = [o EXCEPT !.committer = Configured]
  /\ \A j \in DOMAIN created :
       created[j].kind = "replay" =>
         /\ created[j].committer = Configured
         /\ created[j].author = Original(created[j].src).author

\* C32 witness: a merge commit of the range was dropped, a kept commit was
\* replayed on the second target, and one submission met a conflict.
C32_Witness ==
  /\ engine = "api"
  /\ Len(range) > Len(commits)
  /\ \E j \in DOMAIN created : created[j].kind = "replay" /\ created[j].t = 2
  /\ \E i \in DOMAIN reqs :
       reqs[i].op = "CreateCommit" /\ reqs[i].what = "conflict"

(***************************************************************************)
(* C33: the parents of the replayed commits                                *)
(***************************************************************************)
\* The commit the backport branch of attempt t was created at.
BranchTip(t) == TipSHA(trimRefPrefix(targetRefs[t]))

\* The index in the commit list of the commit with the given SHA.
IndexOf(sha) == CHOOSE k \in DOMAIN commits : commits[k].sha = sha

\* The commit created in attempt t for list index k is `sha`.
CreatedFor(t, k, sha) == \E j \in ReplaysOf(t, k) : created[j].sha = sha

\* The created commit j has the parent the replay order asks for: the
\* branch's original tip for the first commit of the list, else the commit
\* created for the index before it in the same attempt.
ChainedParent(j, sha) ==
  LET k == IndexOf(created[j].src)
  IN  IF k = 1 THEN sha = BranchTip(created[j].t)
      ELSE CreatedFor(created[j].t, k - 1, sha)

\* C33: in the replay onto one target the commit created for the first list
\* entry has the backport branch's original tip as parent and the commit
\* created for every later entry has the commit created for the entry before
\* it on the same branch as parent; a commit that is no merge commit is
\* created with exactly that one parent.
C33_ParentsFollowTheReplay ==
  \A j \in DOMAIN created :
    created[j].kind = "replay" =>
      /\ \E m \in DOMAIN created[j].parents :
           ChainedParent(j, created[j].parents[m])
      /\ ~IsMergeCommit(Original(created[j].src)) =>
           /\ Len(created[j].parents) = 1
           /\ ChainedParent(j, created[j].parents[1])

\* C33 witness: on the second target of an api run, the second commit of
\* the list was created on top of the first.
C33_Witness ==
  /\ engine = "api"
  /\ \E j \in DOMAIN created :
       /\ created[j].kind = "replay"
       /\ created[j].t = 2
       /\ Len(commits) = 2
       /\ created[j].src = commits[2].sha
       /\ ~IsMergeCommit(Original(created[j].src))

(***************************************************************************)
(* C34: conflicts and other replay failures                                *)
(***************************************************************************)
\* The replay of attempt t met a content conflict: the commit creation or
\* the cherry-pick itself reported one (also when the commit of the
\* conflicting state failed afterwards).
ContentConflictIn(t) ==
  \E k \in DOMAIN reqs :
    /\ reqs[k].t = t
    /\ reqs[k].op \in {"CreateCommit", "CherryPick"}
    /\ reqs[k].what \in {"conflict", "commit1"}

\* Attempt t produced a conflict outcome: the conflict comment, a recovery
\* message, or a draft pull request.
ConflictOutcomeIn(t) ==
  \E k \in DOMAIN reqs :
    /\ reqs[k].t = t
    /\ \/ /\ reqs[k].op = "CreateComment"
          /\ reqs[k].what \in {"conflict-abort", "draft-steps"}
       \/ /\ reqs[k].op = "CreatePR"
          /\ reqs[k].what = "draft"

\* C34: a conflict outcome for a target, the conflict comment or a draft
\* pull request with recovery steps, is produced only when the replay failed
\* with a content conflict; any other replay failure gets no conflict
\* comment and no draft pull request.
C34_ConflictOutcomeOnlyOnConflict ==
  \A t \in DOMAIN targetRefs : ConflictOutcomeIn(t) => ContentConflictIn(t)

(***************************************************************************)
(* C35: the cherry-pick command                                            *)
(***************************************************************************)
\* C35: the cherry-pick command Git.CherryPick runs lists every commit it
\* was given one time, in the order given.
C35_CommandListsEachCommitOnce ==
  \A k \in DOMAIN picks : picks[k].args = picks[k].given

(***************************************************************************)
(* C36: a pull request that is not merged                                  *)
(***************************************************************************)
\* The comment requests of the run.
CommentRequests == SelectSeq(reqs, LAMBDA r : r.op = "CreateComment")

\* C36: for a pull request that is not merged Run creates no branch, no
\* commit and no pull request, resolves neither the targets nor the merge
\* kind, and posts exactly one comment, on the source pull request, saying
\* that only merged pull requests are backported.
C36_NotMergedOnlyComments ==
  ~sourcePr.merged =>
    /\ pc \in {"Start", "NotMerged", "Done"}
    /\ \A k \in DOMAIN reqs : reqs[k].op \in {"GetPR", "CreateComment"}
    /\ refs = {[ref |-> FullRef(b), sha |-> TipSHA(b)] : b \in ExistingBranches}
    /\ created = <<>> /\ prs = <<>> /\ picks = <<>>
    /\ targetRefs = <<>> /\ commits = <<>> /\ commitsPRCache = {}
    /\ \A k \in DOMAIN CommentRequests :
         /\ CommentRequests[k].what = "not-merged"
         /\ CommentRequests[k].num = sourcePr.number
    /\ Len(CommentRequests) <= 1
    /\ (pc = "Done" /\ reqs[1].ok) => Len(CommentRequests) = 1

\* C36 witness: a run for a pull request that is not merged and carries a
\* backport label of an existing branch has ended after its comment.
C36_Witness ==
  /\ ~sourcePr.merged
  /\ TargetBranches(sourcePr.labels, 1) # <<>>
  /\ Len(range) > 0
  /\ pc = "Done"
  /\ Len(comments) = 1

(***************************************************************************)
(* C37: kept merge commits on several targets                              *)
(***************************************************************************)
\* `sha` is the tip of, or a commit created on, the backport branch of an
\* attempt before attempt t.
OfEarlierTarget(t, sha) ==
  \E u \in 1..(t - 1) :
    \/ sha = BranchTip(u)
    \/ \E i \in DOMAIN created : created[i].t = u /\ created[i].sha = sha

\* C37: for every target, the parent list a kept merge commit is created
\* with is its original parent list plus one parent on this target's
\* backport branch; it never holds the tip of, or a commit created on, the
\* backport branch of a target processed before.
C37_MergeParentsPerTarget ==
  \A j \in DOMAIN created :
    (created[j].kind = "replay" /\ IsMergeCommit(Original(created[j].src))) =>
      LET orig == Original(created[j].src).parents
          ps   == created[j].parents
      IN  /\ Len(ps) = Len(orig) + 1
          /\ SubSeq(ps, 1, Len(orig)) = orig
          /\ ChainedParent(j, ps[Len(ps)])
          /\ \A m \in DOMAIN ps : ~OfEarlierTarget(created[j].t, ps[m])

(***************************************************************************)
(* C38: the ref named by the delete requests                               *)
(***************************************************************************)
\* C38: every request to delete a branch that cherryPickCommits issues
\* names the ref CreateRef returned for the target of that attempt, on each
\* of its failure paths, the draft path with a failing UpdateRef included.
C38_DeleteNamesTheCreatedRef ==
  \A k \in DOMAIN reqs :
    reqs[k].op = "DeleteRef" =>
      \E i \in 1..(k - 1) :
        /\ reqs[i].op = "CreateRef"
        /\ reqs[i].ok
        /\ reqs[i].t = reqs[k].t
        /\ reqs[i].ref = reqs[k].ref

(***************************************************************************)
(* C39: the pull request number of an accepted event                       *)
(***************************************************************************)
\* The entry point accepted the event and Run is past GetPrNumber.
PastGetPrNumber == pc \notin {"Main", "Start"} /\ ret # "fatal"

\* C39: for every event the entry point accepts, pull_request or
\* pull_request_target, whose payload carries a pull request number,
\* GetPrNumber returns that number: Run goes on to fetch that pull request.
C39_AcceptedEventGetsItsNumber ==
  (PastGetPrNumber /\ CarriesNumber(githubCtx)) =>
    /\ Len(reqs) = 1
    /\ reqs[1].op = "GetPR"
    /\ reqs[1].num = githubCtx.Event.number.int

(***************************************************************************)
(* C40: the repository of the add-labels request                           *)
(***************************************************************************)
\* C40: LabelPR sends its add-labels request to the same owner and
\* repository, in the same argument order, as the other Code Host
\* operations of the client (GetPR, CreatePR, CreateComment).
C40_LabelsGoToTheSameRepository ==
  \A k, j \in DOMAIN reqs :
    (/\ reqs[k].op = "LabelPR"
     /\ reqs[j].op \in {"GetPR", "CreatePR", "CreateComment"}) =>
      /\ reqs[k].owner = reqs[j].owner
      /\ reqs[k].repo = reqs[j].repo
====
